---- MODULE Spec2Model ----
(***************************************************************************)
(* Model of the recipe retrieval core (src/backend/rag_core.py and         *)
(* src/rag_core.py): the retrieval gate search_recipes, the language       *)
(* detector, the text normalizer, the extractors and the formatters.       *)
(* Text is kept as strings; the regular expressions of the source are      *)
(* written as syntax trees and run by a backtracking matcher that follows  *)
(* the priority order of Python's re module.                               *)
(***************************************************************************)
EXTENDS Integers, Sequences, FiniteSets, TLC

\* ------------------------------------------------------------------------
\* Characters and strings
\* ------------------------------------------------------------------------
UpperS == "ABCDEFGHIJKLMNOPQRSTUVWXYZ"
LowerS == "abcdefghijklmnopqrstuvwxyz"
DigitS == "0123456789"

CharsOf(w) == {SubSeq(w, i, i) : i \in 1..Len(w)}

Upper == CharsOf(UpperS)
Lower == CharsOf(LowerS)
Digit == CharsOf(DigitS)
Alpha == Upper \cup Lower
AlNum == Alpha \cup Digit
\* \w and \s of Python's re on the characters the model uses
WordCh == AlNum \cup {"_"}
Space == {" ", "\n", "\t", "\r", "\f"}

LowerMap == [c \in Upper |->
               LET i == CHOOSE j \in 1..26 : SubSeq(UpperS, j, j) = c
               IN SubSeq(LowerS, i, i)]

LowerCh(c) == IF c \in Upper THEN LowerMap[c] ELSE c

At(s, i) == SubSeq(s, i, i)

\* F(v) with v computed first: an argument is otherwise computed where it
\* is first used, inside whatever is then being computed
Then(v, F(_)) == CHOOSE y \in {F(u) : u \in {v}} : TRUE

RECURSIVE FirstIdx(_, _, _)
\* the least i in lo..hi with P(i), or hi + 1 when there is none (the
\* interval is halved, which keeps the evaluation shallow)
FirstIdx(P(_), lo, hi) ==
  IF lo > hi THEN hi + 1
  ELSE IF lo = hi THEN (IF P(lo) THEN lo ELSE hi + 1)
  ELSE LET mid == (lo + hi) \div 2
           l == FirstIdx(P, lo, mid)
       IN IF l <= mid THEN l ELSE FirstIdx(P, mid + 1, hi)

RECURSIVE LowerRange(_, _, _)
LowerRange(s, i, j) ==
  IF i > j THEN ""
  ELSE IF i = j THEN LowerCh(At(s, i))
  ELSE LET mid == (i + j) \div 2
       IN LowerRange(s, i, mid) \o LowerRange(s, mid + 1, j)

\* str.lower()
LowerStr(s) == LowerRange(s, 1, Len(s))

\* s[i:] with a 1-based i
From(s, i) == SubSeq(s, i, Len(s))

\* str.startswith
StartsWith(s, pre) == Len(pre) <= Len(s) /\ SubSeq(s, 1, Len(pre)) = pre

\* `sub in s` for strings
Contains(s, sub) ==
  \E i \in 1..(Len(s) - Len(sub) + 1) : SubSeq(s, i, i + Len(sub) - 1) = sub

\* str.strip(chars)
StripCh(s, cs) ==
  LET n == Len(s)
      i == FirstIdx(LAMBDA k : At(s, k) \notin cs, 1, n)
      j == n + 1 - FirstIdx(LAMBDA k : At(s, n + 1 - k) \notin cs, 1, n)
  IN IF i > j THEN "" ELSE SubSeq(s, i, j)

\* str.strip()
Strip(s) == StripCh(s, Space)

RECURSIVE JoinFrom(_, _, _)
JoinFrom(xs, i, sep) ==
  IF i > Len(xs) THEN ""
  ELSE IF i = Len(xs) THEN xs[i]
  ELSE xs[i] \o sep \o JoinFrom(xs, i + 1, sep)

\* sep.join(xs)
Join(xs, sep) == JoinFrom(xs, 1, sep)

RECURSIVE SplitLit(_, _, _)
\* str.split(sep) for a one-character separator, from position i
SplitLit(s, i, sep) ==
  LET e == FirstIdx(LAMBDA j : At(s, j) = sep, i, Len(s))
  IN IF e > Len(s) THEN <<SubSeq(s, i, Len(s))>>
     ELSE <<SubSeq(s, i, e - 1)>> \o SplitLit(s, e + 1, sep)

\* str.split(sep)
Split(s, sep) == SplitLit(s, 1, sep)

\* [f(x) for x in xs if p(x)] helpers
RECURSIVE KeepIdx(_, _, _, _)
\* the subsequence of xs[lo..hi] at the indexes that satisfy P
KeepIdx(xs, P(_), lo, hi) ==
  IF lo > hi THEN <<>>
  ELSE IF lo = hi THEN (IF P(lo) THEN <<xs[lo]>> ELSE <<>>)
  ELSE LET mid == (lo + hi) \div 2
       IN KeepIdx(xs, P, lo, mid) \o KeepIdx(xs, P, mid + 1, hi)

\* the elements of xs in order, first occurrences only
Uniq(xs) ==
  KeepIdx(xs, LAMBDA i : \A j \in 1..(i - 1) : xs[j] # xs[i], 1, Len(xs))

Range(xs) == {xs[i] : i \in 1..Len(xs)}

\* [x for x in xs if P(x)]
FilterSeq(xs, P(_)) == KeepIdx(xs, LAMBDA i : P(xs[i]), 1, Len(xs))

\* [F(x) for x in xs]
MapSeq(xs, F(_)) == [i \in 1..Len(xs) |-> F(xs[i])]

RECURSIVE Flatten(_, _)
\* the concatenation of the sequences xss[i..]
Flatten(xss, i) == IF i > Len(xss) THEN <<>> ELSE xss[i] \o Flatten(xss, i + 1)

\* str.lstrip(chars)
LStripCh(s, cs) == From(s, FirstIdx(LAMBDA k : At(s, k) \notin cs, 1, Len(s)))


\* ------------------------------------------------------------------------
\* Regular expressions (Python re): syntax trees and a backtracking matcher
\* ------------------------------------------------------------------------
\* an upper repetition bound that no string of the model reaches
Unbounded == 100000

Lit(w) == [k |-> "lit", w |-> w]
In(cs) == [k |-> "in", cs |-> cs]
NotIn(cs) == [k |-> "notin", cs |-> cs]
Cat(rs) == [k |-> "cat", rs |-> rs]
Alt(rs) == [k |-> "alt", rs |-> rs]
Rep(r, lo, hi) == [k |-> "rep", r |-> r, lo |-> lo, hi |-> hi, lazy |-> FALSE]
RepLazy(r, lo, hi) == [k |-> "rep", r |-> r, lo |-> lo, hi |-> hi, lazy |-> TRUE]
Star(r) == Rep(r, 0, Unbounded)
Plus(r) == Rep(r, 1, Unbounded)
Opt(r) == Rep(r, 0, 1)
Grp(n, r) == [k |-> "grp", n |-> n, r |-> r]
\* ^ and $ without re.MULTILINE, ^ and $ with it, \b, (?<=[cs])
Bos == [k |-> "bos"]
Eos == [k |-> "eos"]
Bol == [k |-> "bol"]
Eol == [k |-> "eol"]
Wb == [k |-> "wb"]
Behind(cs) == [k |-> "behind", cs |-> cs]
\* . (no re.DOTALL)
Dot == NotIn({"\n"})
\* an alternation of literal words, in the order written
Words(ws) == Alt([i \in 1..Len(ws) |-> Lit(ws[i])])

NoGroups == <<<<0, 0>>, <<0, 0>>>>
MState(p) == [p |-> p, g |-> NoGroups]

IsWordAt(s, i) == i >= 1 /\ i <= Len(s) /\ At(s, i) \in WordCh

\* how many characters from position p on satisfy a one-character node r
RunLen(r, s, p, max) ==
  LET hi == IF p + max - 1 < Len(s) THEN p + max - 1 ELSE Len(s)
  IN FirstIdx(LAMBDA j : IF r.k = "in" THEN At(s, j) \notin r.cs
                         ELSE At(s, j) \in r.cs, p, hi) - p

RECURSIVE ReMatch(_, _, _)
RECURSIVE ReEach(_, _, _, _, _)
RECURSIVE ReCat(_, _, _, _)
RECURSIVE ReAlt(_, _, _, _, _)
RECURSIVE ReRep(_, _, _, _)

\* every way r matches s from the state st (position and groups), as the
\* states after the match in the order Python's backtracking tries them
ReMatch(r, s, st) ==
  LET p == st.p
      n == Len(s)
  IN CASE r.k = "lit" ->
            IF p + Len(r.w) - 1 <= n /\ SubSeq(s, p, p + Len(r.w) - 1) = r.w
            THEN <<[st EXCEPT !.p = p + Len(r.w)]>> ELSE <<>>
       [] r.k = "in" ->
            IF p <= n /\ At(s, p) \in r.cs
            THEN <<[st EXCEPT !.p = p + 1]>> ELSE <<>>
       [] r.k = "notin" ->
            IF p <= n /\ At(s, p) \notin r.cs
            THEN <<[st EXCEPT !.p = p + 1]>> ELSE <<>>
       [] r.k = "cat" -> ReCat(r.rs, 1, s, <<st>>)
       [] r.k = "alt" -> Uniq(ReAlt(r.rs, 1, Len(r.rs), s, st))
       [] r.k = "rep" ->
            IF r.r.k \in {"in", "notin"}
            THEN LET m == RunLen(r.r, s, p, r.hi)
                     cnt == IF m < r.lo THEN 0 ELSE m - r.lo + 1
                 IN [i \in 1..cnt |->
                       [st EXCEPT !.p = IF r.lazy THEN p + r.lo + i - 1
                                        ELSE p + m - i + 1]]
            ELSE ReRep(r, s, st, 0)
       [] r.k = "grp" ->
            LET inner == ReMatch(r.r, s, st)
            IN [i \in 1..Len(inner) |->
                  [inner[i] EXCEPT !.g[r.n] = <<p, inner[i].p>>]]
       [] r.k = "bos" -> IF p = 1 THEN <<st>> ELSE <<>>
       [] r.k = "eos" ->
            IF p = n + 1 \/ (p = n /\ At(s, n) = "\n") THEN <<st>> ELSE <<>>
       [] r.k = "bol" ->
            IF p = 1 \/ At(s, p - 1) = "\n" THEN <<st>> ELSE <<>>
       [] r.k = "eol" ->
            IF p = n + 1 \/ At(s, p) = "\n" THEN <<st>> ELSE <<>>
       [] r.k = "wb" ->
            IF IsWordAt(s, p - 1) # IsWordAt(s, p) THEN <<st>> ELSE <<>>
       [] r.k = "behind" ->
            IF p >= 2 /\ At(s, p - 1) \in r.cs THEN <<st>> ELSE <<>>

\* the matches of r from each of the states sts[lo..hi], in order
ReEach(r, s, sts, lo, hi) ==
  IF lo > hi THEN <<>>
  ELSE IF lo = hi THEN ReMatch(r, s, sts[lo])
  ELSE LET mid == (lo + hi) \div 2
       IN ReEach(r, s, sts, lo, mid) \o ReEach(r, s, sts, mid + 1, hi)

\* the matches of the concatenation rs[i..] from the states sts
ReCat(rs, i, s, sts) ==
  IF i > Len(rs) THEN sts
  ELSE LET nx == ReEach(rs[i], s, sts, 1, Len(sts))
       IN IF Len(nx) = 0 THEN <<>> ELSE ReCat(rs, i + 1, s, Uniq(nx))

\* the matches of the alternatives rs[lo..hi] from the state st, in order
ReAlt(rs, lo, hi, s, st) ==
  IF lo > hi THEN <<>>
  ELSE IF lo = hi THEN ReMatch(rs[lo], s, st)
  ELSE LET mid == (lo + hi) \div 2
       IN ReAlt(rs, lo, mid, s, st) \o ReAlt(rs, mid + 1, hi, s, st)

RECURSIVE ReRepEach(_, _, _, _, _, _, _)
\* the k-th and later repetitions of r from each state of sts[lo..hi] that
\* consumed something since position p0
ReRepEach(r, s, sts, lo, hi, k, p0) ==
  IF lo > hi THEN <<>>
  ELSE IF lo = hi
       THEN (IF sts[lo].p > p0 THEN ReRep(r, s, sts[lo], k) ELSE <<>>)
  ELSE LET mid == (lo + hi) \div 2
       IN ReRepEach(r, s, sts, lo, mid, k, p0)
          \o ReRepEach(r, s, sts, mid + 1, hi, k, p0)

ReRep(r, s, st, k) ==
  LET once == IF k < r.hi THEN ReMatch(r.r, s, st) ELSE <<>>
      more == ReRepEach(r, s, once, 1, Len(once), k + 1, st.p)
      here == IF k >= r.lo THEN <<st>> ELSE <<>>
  IN Uniq(IF r.lazy THEN here \o more ELSE more \o here)

NoMatch == [ok |-> FALSE, a |-> 0, e |-> 0, g |-> NoGroups]

\* pattern.search(s, pos): the leftmost match at or after position i
ReSearchFrom(r, s, i) ==
  Then(FirstIdx(LAMBDA j : Len(ReMatch(r, s, MState(j))) > 0, i, Len(s) + 1),
       LAMBDA a :
         IF a > Len(s) + 1 THEN NoMatch
         ELSE Then(ReMatch(r, s, MState(a)), LAMBDA m :
                [ok |-> TRUE, a |-> a, e |-> m[1].p, g |-> m[1].g]))

\* re.search(r, s) is not None
ReFound(r, s) == ReSearchFrom(r, s, 1).ok

\* re.match(r, s) is not None
ReMatches(r, s) == Len(ReMatch(r, s, MState(1))) > 0

RECURSIVE ReFindIter(_, _, _)
\* re.finditer(r, s): the non-overlapping matches from position i on
ReFindIter(r, s, i) ==
  Then(ReSearchFrom(r, s, i), LAMBDA m :
    IF ~m.ok THEN <<>>
    ELSE <<m>> \o ReFindIter(r, s, IF m.e > m.a THEN m.e ELSE m.e + 1))

\* group n of a match of s
GroupOf(s, m, n) == SubSeq(s, m.g[n][1], m.g[n][2] - 1)

\* the text a match covers
MatchText(s, m) == SubSeq(s, m.a, m.e - 1)

RECURSIVE ReSubFrom(_, _, _, _, _)
\* re.sub(r, repl, s) computed on the matches `on` finds (the lowered text
\* for re.IGNORECASE), the replacements made in s
ReSubFrom(r, repl, s, on, i) ==
  Then(ReSearchFrom(r, on, i), LAMBDA m :
    IF ~m.ok THEN From(s, i)
    ELSE IF m.e > m.a
         THEN SubSeq(s, i, m.a - 1) \o repl \o ReSubFrom(r, repl, s, on, m.e)
         ELSE IF m.a > Len(s) THEN From(s, i) \o repl
         ELSE SubSeq(s, i, m.a - 1) \o repl \o At(s, m.a)
              \o ReSubFrom(r, repl, s, on, m.a + 1))

ReSub(r, repl, s) == ReSubFrom(r, repl, s, s, 1)
\* re.sub(..., flags=re.IGNORECASE) with r written in lower case
ReSubI(r, repl, s) == ReSubFrom(r, repl, s, LowerStr(s), 1)

RECURSIVE ReSplitFrom(_, _, _, _)
\* re.split(r, s) for a pattern without groups that matches no empty string
ReSplitFrom(r, s, on, i) ==
  Then(ReSearchFrom(r, on, i), LAMBDA m :
    IF ~m.ok \/ m.e = m.a THEN <<From(s, i)>>
    ELSE <<SubSeq(s, i, m.a - 1)>> \o ReSplitFrom(r, s, on, m.e))

ReSplit(r, s) == ReSplitFrom(r, s, s, 1)
ReSplitI(r, s) == ReSplitFrom(r, s, LowerStr(s), 1)

\* ------------------------------------------------------------------------
\* Shared patterns (all compiled with re.IGNORECASE: they are written in
\* lower case and applied to the lowered text)
\* ------------------------------------------------------------------------
UnitWords ==
  <<"cup", "cups", "tbsp", "tbs", "tsp", "tablespoon", "tablespoons",
    "teaspoon", "teaspoons", "gram", "g", "kg", "ml", "l", "oz", "ounce",
    "ounces", "pound", "pounds", "lb", "lbs", "slice", "slices", "clove",
    "cloves", "inch", "buah", "siung", "biji", "lembar", "potong">>

UNIT_PATTERN == Cat(<<Wb, Words(UnitWords), Wb>>)

\* the degree-sign alternatives of the source are left out: the texts of
\* the model hold ASCII only
TimeWords ==
  <<"minute", "minutes", "min", "hour", "hours", "hr", "sec", "second",
    "seconds", "degree", "degrees", "celsius", "fahrenheit", "oven", "bake",
    "preheat", "roast", "simmer", "broil">>

TIME_TEMPERATURE_PATTERN == Cat(<<Wb, Words(TimeWords), Wb>>)

NUTRITION_HINTS ==
  Alt(<<Lit("%"), Cat(<<Lit("vitamin"), Wb>>), Cat(<<Lit("kcal"), Wb>>),
        Lit("calorie"), Lit("calories"), Cat(<<Lit("kj"), Wb>>),
        Cat(<<Lit("mg"), Wb>>), Lit("per serving"), Lit("serving"),
        Cat(<<Wb, Lit("protein"), Wb>>), Cat(<<Wb, Lit("fat"), Wb>>),
        Cat(<<Wb, Lit("saturated fat"), Wb>>),
        Cat(<<Wb, Lit("cholesterol"), Wb>>), Cat(<<Wb, Lit("sodium"), Wb>>),
        Cat(<<Wb, Lit("carbohydrate"), Wb>>), Cat(<<Wb, Lit("fiber"), Wb>>),
        Cat(<<Wb, Lit("sugar"), Opt(Lit("s")), Wb>>),
        Cat(<<Wb, Lit("iron"), Wb>>), Cat(<<Wb, Lit("potassium"), Wb>>),
        Cat(<<Wb, Lit("calcium"), Wb>>)>>)

VerbWords ==
  <<"peel", "core", "muddle", "melt", "invert", "place", "fold", "mix",
    "stir", "add", "combine", "whisk", "beat", "pour", "spread", "slice",
    "dice", "chop", "cut", "press", "roll", "bake", "cook", "heat", "boil",
    "simmer", "fry", "roast", "preheat", "remove", "brush", "lay", "set",
    "serve", "garnish">>

VERB_PHRASES == Cat(<<Wb, Words(VerbWords), Wb>>)

KITCHEN_TOOLS ==
  {"pan", "pot", "saucepan", "bowl", "sheet", "baking sheet", "plate",
   "dish", "spoon", "fork", "knife", "glass", "cup", "container", "mixer",
   "blender", "skillet", "oven", "tray"}

\* pattern.search(s) is not None, for a pattern compiled with re.IGNORECASE
SearchI(r, s) == ReFound(r, LowerStr(s))
\* pattern.match(s) is not None, for a pattern compiled with re.IGNORECASE
MatchI(r, s) == ReMatches(r, LowerStr(s))

\* any(tool in s.lower() for tool in KITCHEN_TOOLS)
MentionsTool(s) == \E tool \in KITCHEN_TOOLS : Contains(LowerStr(s), tool)

\* [ln.strip() for ln in text.splitlines() if ln.strip()]
RECURSIVE StripKeep(_, _)
StripKeep(xs, i) ==
  IF i > Len(xs) THEN <<>>
  ELSE Then(Strip(xs[i]), LAMBDA t : IF t = "" THEN <<>> ELSE <<t>>)
       \o StripKeep(xs, i + 1)

StrippedLines(text) == StripKeep(Split(text, "\n"), 1)

RECURSIVE UniqLower(_, _, _)
\* order-preserving deduplication by lower-cased key
UniqLower(xs, i, seen) ==
  IF i > Len(xs) THEN <<>>
  ELSE Then(LowerStr(xs[i]), LAMBDA key :
         IF key \in seen THEN UniqLower(xs, i + 1, seen)
         ELSE <<xs[i]>> \o UniqLower(xs, i + 1, seen \cup {key}))

NutritionLine2 ==
  Cat(<<Wb,
        Alt(<<Cat(<<Lit("calorie"), Opt(Lit("s"))>>), Lit("kcal"),
              Cat(<<Lit("vitamin "), In(Lower)>>),
              Cat(<<Lit("vitamin "), In(Lower)>>),
              Cat(<<Plus(In(Digit)), Star(In(Space)), Lit("mg")>>),
              Cat(<<Plus(In(Digit)), Star(In(Space)), Lit("kj")>>),
              Cat(<<Plus(In(Digit)), Star(In(Space)), Lit("%")>>)>>),
        Wb>>)

RECURSIVE NutritionLines(_, _)
NutritionLines(lines, i) ==
  IF i > Len(lines) THEN <<>>
  ELSE (IF SearchI(NUTRITION_HINTS, lines[i]) \/ SearchI(NutritionLine2, lines[i])
        THEN <<lines[i]>> ELSE <<>>) \o NutritionLines(lines, i + 1)

extract_nutrition_info(text) ==
  UniqLower(NutritionLines(StrippedLines(text), 1), 1, {})

\* ------------------------------------------------------------------------
\* Language detection
\* ------------------------------------------------------------------------
indonesian_keywords ==
  {"resep", "cara", "membuat", "memasak", "bahan", "apa", "bagaimana",
   "dengan", "untuk", "yang", "dan", "adalah", "ini", "itu"}

IndonesianWordPattern ==
  Cat(<<Wb, Words(<<"apa", "tolong", "tolonglah", "silakan", "saya", "kamu",
                    "kue", "nasi", "goreng">>), Wb>>)

\* a detector that counts a marker word only where it stands as a whole word
detect_language_whole_words(query) ==
  LET query_lower == LowerStr(query)
  IN IF \E w \in indonesian_keywords :
          ReFound(Cat(<<Wb, Lit(w), Wb>>), query_lower)
     THEN "indonesian"
     ELSE IF ReFound(IndonesianWordPattern, query_lower) THEN "indonesian"
     ELSE "english"

detect_language(query) ==
  LET query_lower == LowerStr(query)
      indonesian_count ==
        Cardinality({w \in indonesian_keywords : Contains(query_lower, w)})
  IN IF indonesian_count >= 1 THEN "indonesian"
     ELSE IF ReFound(IndonesianWordPattern, query_lower) THEN "indonesian"
     ELSE "english"

\* ------------------------------------------------------------------------
\* Text cleaner
\* ------------------------------------------------------------------------
SectionLabel ==
  Cat(<<Bos,
        Words(<<"cara memasak", "cara membuat", "instructions", "steps",
                "method", "directions">>),
        Star(In({":", "-"} \cup Space))>>)

CreditTail ==
  Cat(<<Words(<<"dotdash meredith", "allrecipes", "food studios">>),
        Star(Dot), Eos>>)

\* ^\d+[\.\)]\s*
Numbering == Cat(<<Bos, Plus(In(Digit)), In({".", ")"}), Star(In(Space))>>)

\* re.sub(r'^\d+[\.\)]\s*', '', s)
StripNumbering(s) ==
  Then(ReMatch(Numbering, s, MState(1)), LAMBDA m :
    IF Len(m) > 0 THEN From(s, m[1].p) ELSE s)

RECURSIVE UniqueLinesAsWritten(_, _, _)
\* a deduplication whose key keeps the enumeration marker of the line
UniqueLinesAsWritten(lines, i, seen) ==
  IF i > Len(lines) THEN <<>>
  ELSE Then(LowerStr(lines[i]), LAMBDA line_clean :
         IF line_clean \in seen THEN UniqueLinesAsWritten(lines, i + 1, seen)
         ELSE <<lines[i]>>
              \o UniqueLinesAsWritten(lines, i + 1, seen \cup {line_clean}))

RECURSIVE UniqueLines(_, _, _)
UniqueLines(lines, i, seen) ==
  IF i > Len(lines) THEN <<>>
  ELSE Then(StripNumbering(LowerStr(lines[i])), LAMBDA line_clean :
         IF line_clean \in seen THEN UniqueLines(lines, i + 1, seen)
         ELSE <<lines[i]>> \o UniqueLines(lines, i + 1, seen \cup {line_clean}))

\* re.sub(^label, '', c): the text after a leading section label
CutSectionLabel(c) ==
  Then(ReMatch(SectionLabel, LowerStr(c), MState(1)), LAMBDA m :
    IF Len(m) > 0 THEN From(c, m[1].p) ELSE c)

\* re.sub(credit.*$, '', c): the text before a credit
CutCreditTail(c) ==
  Then(ReSearchFrom(CreditTail, LowerStr(c), 1), LAMBDA m :
    IF m.ok THEN SubSeq(c, 1, m.a - 1) ELSE c)

clean_garbage_text(text, title) ==
  Then(Strip(text), LAMBDA c0 :
  Then(IF StartsWith(LowerStr(c0), LowerStr(title))
       THEN StripCh(From(c0, Len(title) + 1), {" ", ".", ":", "-"})
       ELSE c0, LAMBDA c1 :
  Then(Strip(CutSectionLabel(c1)), LAMBDA c2 :
  Then(Strip(CutCreditTail(c2)), LAMBDA c3 :
    Join(UniqueLines(StrippedLines(c3), 1, {}), "\n")))))

\* ------------------------------------------------------------------------
\* Ingredient extraction
\* ------------------------------------------------------------------------
\* the unit alternation of extract_ingredients_from_text
IngredientUnits ==
  Words(<<"cup", "cups", "tbsp", "tbs", "tsp", "tablespoon", "tablespoons",
          "teaspoon", "teaspoons", "gram", "g", "kg", "ml", "l", "oz",
          "ounce", "ounces", "pound", "pounds", "lb", "lbs", "buah", "siung",
          "biji", "lembar", "potong", "slices", "slice", "clove", "cloves">>)

Digits1 == Plus(In(Digit))
Spaces0 == Star(In(Space))
Spaces1 == Plus(In(Space))
\* [^.,\n]+
ClauseTail == Plus(NotIn({".", ",", "\n"}))
\* (?:[\.,]\d+)?
DecimalPart == Opt(Cat(<<In({".", ","}), Digits1>>))

\* the six measurement patterns, in the order the source tries them (the
\* en dash of the second pattern is left out: ASCII only)
IngredientPatterns ==
  <<Cat(<<Digits1, DecimalPart, Spaces0, IngredientUnits, Spaces1, ClauseTail>>),
    Cat(<<Digits1, In({"-"}), Digits1, Spaces0, IngredientUnits, Spaces1,
          ClauseTail>>),
    Cat(<<Digits1, Spaces1, Lit("to"), Spaces1, Digits1, Spaces0,
          IngredientUnits, Spaces1, ClauseTail>>),
    Cat(<<Digits1, Lit("/"), Digits1, Spaces0, IngredientUnits, Spaces1,
          ClauseTail>>),
    Cat(<<Star(In(WordCh \cup Space \cup {",", "(", ")", "-"})), Digits1,
          DecimalPart, Spaces0, IngredientUnits, Spaces0,
          Opt(Cat(<<Lit("("), Star(NotIn({")"})), Lit(")"), Spaces0>>)),
          ClauseTail>>),
    Cat(<<Digits1, Spaces0, Lit("("), Plus(NotIn({")"})), Lit(")"), Spaces0,
          ClauseTail>>)>>

\* re.findall(pattern, text, re.IGNORECASE) for a pattern that is one group
FindAllI(r, text) ==
  MapSeq(ReFindIter(r, LowerStr(text), 1), LAMBDA m : MatchText(text, m))

\* the matches the first loop keeps (lines 193-205)
MeasuredMatches(text) ==
  FilterSeq(Flatten(MapSeq(IngredientPatterns,
                           LAMBDA pat : FindAllI(pat, text)), 1),
            LAMBDA m : /\ ~SearchI(NUTRITION_HINTS, m)
                       /\ ~SearchI(TIME_TEMPERATURE_PATTERN, m)
                       /\ ~MatchI(VERB_PHRASES, Strip(m)))

\* \r?\n|\n|\n-|-\s+
PartSplit ==
  Alt(<<Cat(<<Opt(Lit("\r")), Lit("\n")>>), Lit("\n"), Lit("\n-"),
        Cat(<<Lit("-"), Spaces1>>)>>)

\* the parts of one match that the second loop keeps (lines 209-223)
SplitCandidatesOf(it) ==
  FilterSeq(MapSeq(ReSplit(PartSplit, it),
                   LAMBDA part : Strip(LStripCh(Strip(part), {"-"}))),
            LAMBDA q : /\ q # ""
                       /\ ~SearchI(NUTRITION_HINTS, q)
                       /\ ~SearchI(TIME_TEMPERATURE_PATTERN, q)
                       /\ ~MentionsTool(q)
                       /\ ~MatchI(VERB_PHRASES, q))

split_candidates(text) ==
  Flatten(MapSeq(MeasuredMatches(text), SplitCandidatesOf), 1)

\* the third loop (lines 230-259): filter again, drop short ones, deduplicate
MeasuredIngredients(text) ==
  UniqLower(FilterSeq(MapSeq(split_candidates(text), Strip),
                      LAMBDA q : /\ ~SearchI(TIME_TEMPERATURE_PATTERN, q)
                                 /\ ~SearchI(NUTRITION_HINTS, q)
                                 /\ ~MentionsTool(q)
                                 /\ ~MatchI(VERB_PHRASES, q)
                                 /\ Len(q) >= 3),
            1, {})

verb_pattern ==
  Cat(<<Wb,
        Words(<<"add", "adds", "stir in", "stir", "mix in", "mix", "combine",
                "fold in", "fold", "sprinkle", "melt", "press", "place",
                "roll out", "roll", "peel", "core", "slice", "top with",
                "use", "put", "brush">>),
        Wb, Spaces0, Opt(Cat(<<Lit("the"), In(Space)>>)),
        Grp(1, Plus(NotIn({".", ",", ";", "\n"})))>>)

\* ,| and |\band\b|;|/|\+|\bor\b
ObjectSplit ==
  Alt(<<Lit(","), Lit(" and "), Cat(<<Wb, Lit("and"), Wb>>), Lit(";"),
        Lit("/"), Lit("+"), Cat(<<Wb, Lit("or"), Wb>>)>>)

\* re.sub(r"\bWORD\b.*$", '', part, flags=re.IGNORECASE).strip()
CutFromWord(part, w) ==
  Then(ReSearchFrom(Cat(<<Wb, Lit(w), Wb, Star(Dot), Eos>>), LowerStr(part), 1),
       LAMBDA m :
         Strip(IF m.ok THEN SubSeq(part, 1, m.a - 1) \o From(part, m.e)
               ELSE part))

stopwords ==
  {"and", "then", "the", "a", "an", "to", "in", "into", "over", "with",
   "until", "for", "about", "of", "on", "at", "by", "each", "per", "so",
   "it", "that"}

cooking_adj ==
  {"sliced", "thinly", "chopped", "diced", "minced", "fresh", "unsalted",
   "salted", "medium", "large", "small", "peeled", "cored", "thin", "soft",
   "remaining", "one", "two", "both", "stir", "form", "first", "second",
   "third", "fourth", "up", "will", "trim", "excess", "some", "onto",
   "sides", "inch", "strip", "strips", "pieces", "piece", "press", "roll",
   "rollout", "lay", "cut", "place", "cook", "bring", "reduce", "remove",
   "paste"}

\* re.findall(r"[A-Za-z\-']+", part)
WordsOf(part) ==
  MapSeq(ReFindIter(Plus(In(Alpha \cup {"-", "'"})), part, 1),
         LAMBDA m : MatchText(part, m))

\* re.sub(UNIT_PATTERN.pattern, repl, s, flags=re.IGNORECASE)
SubUnits(s, repl) == ReSubI(UNIT_PATTERN, repl, s)

\* [A-Za-z]{3,}
ThreeLetters == Rep(In(Alpha), 3, Unbounded)

\* the candidate one part of a verb object gives, <<>> when it gives none
\* (lines 299-319; `seen` is empty whenever this code runs)
\* the filters a heuristic candidate passes (lines 305-317)
KeepHeuristic(candidate) ==
  /\ Len(candidate) > 1
  /\ ~(SearchI(UNIT_PATTERN, candidate)
       /\ ~ReFound(ThreeLetters, SubUnits(candidate, "")))
  /\ ~SearchI(NUTRITION_HINTS, candidate)
  /\ ~SearchI(TIME_TEMPERATURE_PATTERN, candidate)
  /\ ~MentionsTool(candidate)

HeuristicOf(part0) ==
  Then(CutFromWord(CutFromWord(Strip(part0), "into"), "for"), LAMBDA part :
  Then(FilterSeq(WordsOf(part),
                 LAMBDA w : /\ LowerStr(w) \notin stopwords
                            /\ LowerStr(w) \notin cooking_adj), LAMBDA keep :
    IF Len(keep) = 0 THEN <<>>
    ELSE Then(Strip(keep[1]), LAMBDA candidate :
           IF KeepHeuristic(candidate) THEN <<candidate>> ELSE <<>>)))

\* the verb-based heuristics (lines 294-319); the optional noun-chunk
\* parser of lines 264-291 is absent (get_spacy() returns None)
VerbHeuristics(text) ==
  Then(MapSeq(ReFindIter(verb_pattern, LowerStr(text), 1),
              LAMBDA m : Strip(GroupOf(text, m, 1))), LAMBDA objs :
  Then(Flatten(MapSeq(objs, LAMBDA obj : ReSplitI(ObjectSplit, obj)), 1),
       LAMBDA parts :
    Flatten(MapSeq(parts, HeuristicOf), 1)))

\* cleaned_ingredients as it stands at line 326
cleaned_ingredients(text) ==
  Then(MeasuredIngredients(text), LAMBDA measured :
    IF Len(measured) > 0 THEN measured
    ELSE UniqLower(FilterSeq(MapSeq(VerbHeuristics(text), Strip),
                             LAMBDA h : h # ""), 1, {}))

banned_substrings ==
  {"oven", "preheat", "minute", "minutes", "hour", "heat", "step", "steps",
   "repeat", "natalie", "informasi", "nutrisi", "instructions", "cara",
   "memasak", "remove", "place", "lay", "fold", "unfold", "trim", "press",
   "bake", "cook", "bring", "reduce", "position", "center", "edge",
   "vitamin", "kcal", "calorie", "%", "serving", "per serving"}

pantry ==
  {"salt", "sugar", "butter", "flour", "egg", "eggs", "milk", "water",
   "olive oil", "oil", "vinegar", "baking powder", "baking soda", "yeast",
   "vanilla", "cinnamon", "apple", "apples", "pastry", "crust",
   "sugar-butter", "sugar butter", "sugars"}

CoreAdjectives ==
  Cat(<<Wb,
        Words(<<"sliced", "chopped", "diced", "minced", "fresh", "unsalted",
                "salted", "medium", "large", "small", "peeled", "cored",
                "thin", "soft", "pieces", "piece">>),
        Wb>>)

\* str.split(): the maximal runs of non-space characters
SplitWs(s) ==
  MapSeq(ReFindIter(Plus(NotIn(Space)), s, 1), LAMBDA m : MatchText(s, m))

core_name(s) ==
  Then(ReSub(Cat(<<Lit("("), Star(NotIn({")"})), Lit(")")>>), " ", LowerStr(s)),
       LAMBDA s1 :
  Then(ReSub(NotIn(Lower \cup Space), " ", s1), LAMBDA s2 :
  Then(SubUnits(s2, " "), LAMBDA s3 :
  Then(ReSub(CoreAdjectives, " ", s3), LAMBDA s4 :
  Then(Strip(ReSub(Spaces1, " ", s4)), LAMBDA s5 :
  Then(SplitWs(s5), LAMBDA parts :
    IF Len(parts) = 0 THEN s5
    ELSE IF Len(parts) >= 2
         THEN parts[Len(parts) - 1] \o " " \o parts[Len(parts)]
         ELSE parts[Len(parts)]))))))

CookingVerbInside ==
  Cat(<<Wb,
        Words(<<"add", "stir", "mix", "combine", "fold", "press", "cut",
                "roll", "preheat", "bake", "cook", "bring", "reduce",
                "remove", "brush">>),
        Wb>>)

\* re.sub(r'^[^A-Za-z0-9]+|[^A-Za-z0-9]+$', '', c)
TrimNonAlNum(c) ==
  ReSub(Alt(<<Cat(<<Bos, Plus(NotIn(AlNum))>>), Cat(<<Plus(NotIn(AlNum)), Eos>>)>>),
        "", c)

HasDigit(s) == \E i \in 1..Len(s) : At(s, i) \in Digit

AlphaCount(s) == Cardinality({i \in 1..Len(s) : At(s, i) \in Alpha})

\* the candidate as the consolidation loop takes it, "" when it skips it
\* (lines 367-387)
Consolidable(cand) ==
  Then(TrimNonAlNum(Strip(cand)), LAMBDA c :
  Then(LowerStr(c), LAMBDA cl :
  Then(\E p \in pantry : Contains(cl, p), LAMBDA hasPantry :
    IF c = "" THEN ""
    ELSE IF \E bs \in banned_substrings : Contains(cl, bs) THEN ""
    ELSE IF ReFound(CookingVerbInside, cl)
            /\ ~(ReFound(UNIT_PATTERN, cl) \/ hasPantry) THEN ""
    ELSE IF MentionsTool(cl) /\ ~hasPantry THEN ""
    ELSE IF AlphaCount(cl) < 3 THEN ""
    ELSE c)))

RECURSIVE Consolidate(_, _, _, _)
\* the consolidation loop (lines 366-402): core_map and core_order
Consolidate(cands, i, core_map, core_order) ==
  IF i > Len(cands) THEN [k \in 1..Len(core_order) |-> core_map[core_order[k]]]
  ELSE Then(Consolidable(cands[i]), LAMBDA c :
         IF c = "" THEN Consolidate(cands, i + 1, core_map, core_order)
         ELSE Then(core_name(c), LAMBDA core :
           IF core \notin DOMAIN core_map
           THEN Consolidate(cands, i + 1, core_map @@ (core :> c),
                            Append(core_order, core))
           ELSE LET existing == core_map[core]
                    repl == \/ HasDigit(c) /\ ~HasDigit(existing)
                            \/ Len(c) > Len(existing)
                IN Consolidate(cands, i + 1,
                               IF repl THEN [core_map EXCEPT ![core] = c]
                               ELSE core_map,
                               core_order)))

extract_ingredients_from_text(text) ==
  Then(cleaned_ingredients(text), LAMBDA cleaned :
  Then(Consolidate(cleaned, 1, <<>>, <<>>), LAMBDA final_ingredients :
    IF Len(final_ingredients) > 0 THEN final_ingredients ELSE cleaned))

\* ------------------------------------------------------------------------
\* Step extraction
\* ------------------------------------------------------------------------
\* (?<=[.!?])\s+
SentenceSplit == Cat(<<Behind({".", "!", "?"}), Plus(In(Space))>>)

\* (?im)^\s*(?:-|<bullet>)?\s*{re.escape(ing)}\s*$ ; the bullet character is
\* outside ASCII and is left out, as no text of the model holds it
IngredientLine(ing) ==
  Cat(<<Bol, Star(In(Space)), Opt(Lit("-")), Star(In(Space)),
        Lit(LowerStr(ing)), Star(In(Space)), Eol>>)

RECURSIVE RemoveIngredientLines(_, _, _)
\* for ing in ings: text = re.sub(<ingredient line>, '', text)
RemoveIngredientLines(body, names, n) ==
  IF n > Len(names) THEN body
  ELSE RemoveIngredientLines(ReSubI(IngredientLine(names[n]), "", body),
                             names, n + 1)

\* the ingredient list a formatter works with: the supplied list, stripped
\* and without blanks, when it is non-empty, else the heuristic extraction
IngredientsFor(given, body) ==
  IF Len(given) > 0 THEN StripKeep(given, 1)
  ELSE extract_ingredients_from_text(body)

RECURSIVE StepSentences(_, _)
\* the loop of extract_steps over the sentences (lines 622-634)
StepSentences(sents, n) ==
  IF n > Len(sents) THEN <<>>
  ELSE Then(Strip(sents[n]), LAMBDA stripped :
       Then(StripNumbering(stripped), LAMBDA unnumbered :
         IF \/ Len(stripped) < 6
            \/ (Len(SplitWs(unnumbered)) <= 6
                /\ SearchI(UNIT_PATTERN, unnumbered))
            \/ SearchI(NUTRITION_HINTS, unnumbered)
         THEN <<>> ELSE <<unnumbered>>))
       \o StepSentences(sents, n + 1)

extract_steps(raw_text, recipe_name, ingredients_list) ==
  Then(clean_garbage_text(raw_text, recipe_name), LAMBDA cleaned_text :
  Then(IngredientsFor(ingredients_list, cleaned_text), LAMBDA ings :
  Then(RemoveIngredientLines(cleaned_text, ings, 1), LAMBDA remaining :
  Then(ReSplit(SentenceSplit, remaining), LAMBDA sentences :
  Then(StepSentences(sentences, 1), LAMBDA steps :
    UniqLower(steps, 1, {}))))))

\* ------------------------------------------------------------------------
\* Local formatter
\* ------------------------------------------------------------------------
RECURSIVE IntStr(_)
\* str(n) of a natural number
IntStr(n) ==
  IF n < 10 THEN SubSeq(DigitS, n + 1, n + 1)
  ELSE IntStr(n \div 10) \o SubSeq(DigitS, (n % 10) + 1, (n % 10) + 1)

\* (?im)^\s*(bahan-bahan|ingredients|ingredient)[:\s\-]*\n?
IngredientsHeader ==
  Cat(<<Bol, Star(In(Space)),
        Words(<<"bahan-bahan", "ingredients", "ingredient">>),
        Star(In({":", "-"} \cup Space)), Opt(In({"\n"}))>>)

\* \n{2,}
BlankRuns == Rep(In({"\n"}), 2, Unbounded)

\* the text the steps are split from (lines 434-446)
TextForSteps(body, names) ==
  IF Len(names) = 0 THEN body
  ELSE Then(ReSubI(IngredientsHeader, "", body), LAMBDA t1 :
       Then(RemoveIngredientLines(t1, names, 1), LAMBDA t2 :
       Then(Strip(ReSub(BlankRuns, "\n\n", t2)), LAMBDA t3 :
         Strip(Join(FilterSeq(Split(t3, "\n"),
                              LAMBDA ln : ~SearchI(NUTRITION_HINTS, ln)),
                    "\n")))))

RECURSIVE LocalSteps(_, _, _)
\* the loop of local_format_to_markdown over the sentences (lines 452-469)
LocalSteps(sents, names, n) ==
  IF n > Len(sents) THEN <<>>
  ELSE Then(Strip(sents[n]), LAMBDA stripped :
       Then(StripNumbering(stripped), LAMBDA unnumbered :
         LET short_words == Len(SplitWs(stripped)) <= 8
             contains_unit == SearchI(UNIT_PATTERN, stripped)
             matches_exact_ing ==
               \E k \in 1..Len(names) :
                 StartsWith(LowerStr(stripped), LowerStr(names[k]))
         IN IF \/ Len(stripped) < 10
               \/ (short_words /\ contains_unit)
               \/ matches_exact_ing
               \/ unnumbered = ""
            THEN <<>> ELSE <<unnumbered>>))
       \o LocalSteps(sents, names, n + 1)

\* the section labels and placeholders of the local formatter; the pictographs
\* that follow "###" in the source are outside ASCII and are left out
LocalLabels(language) ==
  IF language = "indonesian"
  THEN [ingredients |-> "### Bahan-bahan",
        no_ingredients |-> "- (Bahan tidak terdeteksi, lihat instruksi di bawah)",
        instructions |-> "\n### Cara Memasak",
        nutrition |-> "\n### Informasi Nutrisi",
        no_nutrition |-> "- Tidak tersedia"]
  ELSE [ingredients |-> "### Ingredients",
        no_ingredients |-> "- (Ingredients not auto-detected, see instructions)",
        instructions |-> "\n### Instructions",
        nutrition |-> "\n### Nutrition Information",
        no_nutrition |-> "- Not available"]

Bulleted(xs) == [k \in 1..Len(xs) |-> "- " \o xs[k]]
Numbered(xs) == [k \in 1..Len(xs) |-> IntStr(k) \o ". " \o xs[k]]

\* what local_format_to_markdown extracts before it writes (lines 434-469):
\* the cleaned text, the ingredients, the steps and the nutrition lines
LocalParts(raw_text, recipe_name, ingredients_list) ==
  Then(clean_garbage_text(raw_text, recipe_name), LAMBDA cleaned_text :
  Then(IngredientsFor(ingredients_list, cleaned_text), LAMBDA ingredients :
  Then(extract_nutrition_info(cleaned_text), LAMBDA nutrition_info :
  Then(TextForSteps(cleaned_text, ingredients), LAMBDA text_for_steps :
  Then(ReSplit(SentenceSplit, text_for_steps), LAMBDA sentences :
  Then(LocalSteps(sentences, ingredients, 1), LAMBDA steps :
    [text |-> cleaned_text, ingredients |-> ingredients, steps |-> steps,
     nutrition_info |-> nutrition_info]))))))

\* the document local_format_to_markdown writes from them (lines 471-521)
LocalDocument(parts, recipe_name, language) ==
  LET lb == LocalLabels(language)
      md == <<"## " \o recipe_name \o "\n", lb.ingredients>>
            \o (IF Len(parts.ingredients) > 0 THEN Bulleted(parts.ingredients)
                ELSE <<lb.no_ingredients>>)
            \o <<lb.instructions>>
            \o (IF Len(parts.steps) > 0 THEN Numbered(parts.steps)
                ELSE <<"1. " \o parts.text>>)
            \o <<lb.nutrition>>
            \o (IF Len(parts.nutrition_info) > 0
                THEN Bulleted(parts.nutrition_info)
                ELSE <<lb.no_nutrition>>)
  IN Join(md, "\n")

local_format_to_markdown(raw_text, recipe_name, language, ingredients_list) ==
  Then(LocalParts(raw_text, recipe_name, ingredients_list), LAMBDA parts :
    LocalDocument(parts, recipe_name, language))

\* ------------------------------------------------------------------------
\* Stored records (the payload of a point)
\* ------------------------------------------------------------------------
\* a payload is a function from the keys it holds to tagged values: a string,
\* a list of strings, or None
StrVal(v) == [t |-> "str", v |-> v]
ListVal(v) == [t |-> "list", v |-> v]
NoneVal == [t |-> "none", v |-> ""]

\* payload.get(key, default)
Get(payload, key, default) ==
  IF key \in DOMAIN payload THEN payload[key] ELSE default

\* isinstance(x, list) and x
IsFilledList(x) == x.t = "list" /\ Len(x.v) > 0

\* f"{x}" of a value
Rendered(x) == IF x.t = "none" THEN "None" ELSE x.v

\* ------------------------------------------------------------------------
\* Main formatter
\* ------------------------------------------------------------------------
\* \b[A-Z][a-z]+\s+[A-Z]\s*$
AuthorCredit ==
  Cat(<<Wb, In(Upper), Plus(In(Lower)), Plus(In(Space)), In(Upper),
        Star(In(Space)), Eos>>)

\* ^Photo by\s+.*$ and ^Recipe by\s+.*$
PhotoCredit == Cat(<<Bos, Lit("photo by"), Plus(In(Space)), Star(Dot), Eos>>)
RecipeCredit == Cat(<<Bos, Lit("recipe by"), Plus(In(Space)), Star(Dot), Eos>>)

\* cookin['\']?\s*mama
CookinMama == Cat(<<Lit("cookin"), Opt(In({"'"})), Star(In(Space)), Lit("mama")>>)

\* the sentence kept from a step of payload.steps (lines 680-685)
StepSentence(sent) ==
  Then(Strip(ReSub(AuthorCredit, "", Strip(sent))), LAMBDA s1 :
  Then(Strip(ReSubI(PhotoCredit, "", s1)), LAMBDA s2 :
  Then(Strip(ReSubI(RecipeCredit, "", s2)), LAMBDA s3 :
    Strip(ReSubI(CookinMama, "", s3)))))

\* the sentence kept from a piece of payload.steps_text (lines 695-696)
StepTextSentence(sent) == Strip(ReSub(AuthorCredit, "", Strip(sent)))

RECURSIVE SentencesOfSteps(_, _, _)
\* the sentences of the steps from the n-th on that are longer than 15
\* characters, cleaned by Clean
SentencesOfSteps(steps, Clean(_), n) ==
  IF n > Len(steps) THEN <<>>
  ELSE FilterSeq(MapSeq(ReSplit(SentenceSplit, Strip(steps[n])), Clean),
                 LAMBDA c : Len(c) > 15)
       \o SentencesOfSteps(steps, Clean, n + 1)

\* does format_recipe_output read the raw text for its instructions, and
\* for its nutrition section
StepsFromText(payload) ==
  /\ ~IsFilledList(Get(payload, "steps", ListVal(<<>>)))
  /\ Get(payload, "steps_text", NoneVal).t # "str"
NutritionFromText(payload) ==
  /\ ~IsFilledList(Get(payload, "nutrients", ListVal(<<>>)))
  /\ Get(payload, "nutrients_text", NoneVal).t # "str"

\* format_recipe_output raises (AttributeError) when it hands a value that is
\* not a string to the text cleaner or to the nutrition extractor
FormatRaises(payload) ==
  \/ /\ StepsFromText(payload)
     /\ \/ Get(payload, "text", StrVal("")).t # "str"
        \/ Get(payload, "recipe_name", StrVal("Tanpa Judul")).t # "str"
  \/ /\ NutritionFromText(payload)
     /\ Get(payload, "text", StrVal("")).t # "str"

\* a step 1 that turns to the raw text when no sentence of payload.steps is
\* kept
InstructionListOrText(payload) ==
  IF /\ IsFilledList(Get(payload, "steps", ListVal(<<>>)))
     /\ Len(SentencesOfSteps(payload["steps"].v, StepSentence, 1)) > 0
  THEN SentencesOfSteps(payload["steps"].v, StepSentence, 1)
  ELSE IF /\ ~IsFilledList(Get(payload, "steps", ListVal(<<>>)))
          /\ Get(payload, "steps_text", NoneVal).t = "str"
  THEN SentencesOfSteps(Split(payload["steps_text"].v, ";"),
                        StepTextSentence, 1)
  ELSE extract_steps(Get(payload, "text", StrVal("")).v,
                     Get(payload, "recipe_name", StrVal("Tanpa Judul")).v,
                     <<>>)

\* step 1 of format_recipe_output (lines 670-702)
InstructionList(payload) ==
  IF IsFilledList(Get(payload, "steps", ListVal(<<>>)))
  THEN SentencesOfSteps(payload["steps"].v, StepSentence, 1)
  ELSE IF Get(payload, "steps_text", NoneVal).t = "str"
  THEN SentencesOfSteps(Split(payload["steps_text"].v, ";"),
                        StepTextSentence, 1)
  ELSE extract_steps(Get(payload, "text", StrVal("")).v,
                     Get(payload, "recipe_name", StrVal("Tanpa Judul")).v,
                     <<>>)

\* \b(add|melt|...|layer)\b as group 1
cooking_verbs ==
  Cat(<<Wb,
        Grp(1, Words(<<"add", "melt", "mix", "stir", "combine", "beat",
                       "whisk", "fold", "pour", "peel", "core", "slice",
                       "dice", "chop", "cut", "spread", "sprinkle", "brush",
                       "use", "place", "layer">>)),
        Wb>>)

junk_words ==
  {"first", "second", "third", "fourth", "one", "two", "three", "four",
   "both", "remaining", "unused", "some", "each", "all", "other", "another",
   "more", "oven", "pan", "bowl", "sheet", "heat", "temperature", "degrees",
   "strips", "crust", "lattice", "mound", "pieces", "slices", "mixture",
   "position"}

\* ^(combine|mix)\s+([^;]+?)(?:\s+in\s+|\s*;)
CombinePattern ==
  Cat(<<Bos, Grp(1, Words(<<"combine", "mix">>)), Plus(In(Space)),
        Grp(2, RepLazy(NotIn({";"}), 1, Unbounded)),
        Alt(<<Cat(<<Plus(In(Space)), Lit("in"), Plus(In(Space))>>),
              Cat(<<Star(In(Space)), Lit(";")>>)>>)>>)

\* ,\s*(?:and\s+)?|\s+and\s+
ItemSplit ==
  Alt(<<Cat(<<Lit(","), Star(In(Space)),
              Opt(Cat(<<Lit("and"), Plus(In(Space))>>))>>),
        Cat(<<Plus(In(Space)), Lit("and"), Plus(In(Space))>>)>>)

\* {cooking_verbs}\s+([^,.;]+?)(?:\s+(?:in|into|over|on|to|until|
\*                                   and\s+(?:stir|cook|bring)|,|\.))
VerbObjectPattern ==
  Cat(<<cooking_verbs, Plus(In(Space)),
        Grp(2, RepLazy(NotIn({",", ".", ";"}), 1, Unbounded)),
        Plus(In(Space)),
        Alt(<<Lit("in"), Lit("into"), Lit("over"), Lit("on"), Lit("to"),
              Lit("until"),
              Cat(<<Lit("and"), Plus(In(Space)),
                    Words(<<"stir", "cook", "bring">>)>>),
              Lit(","), Lit(".")>>)>>)

\* \b(the|a|an|some|all|both|remaining)\b\s*
Articles ==
  Cat(<<Wb, Words(<<"the", "a", "an", "some", "all", "both", "remaining">>),
        Wb, Star(In(Space))>>)

\* the clean-up of a candidate phrase (lines 726-728 and 749-752)
CleanPhrase(phrase) ==
  Then(ReSubI(Articles, "", Strip(phrase)), LAMBDA bare :
    Strip(ReSub(Plus(In(Space)), " ", bare)))

\* the filters of the combine branch (lines 730-737)
KeepCombined(phrase) ==
  Then(SplitWs(LowerStr(phrase)), LAMBDA ws :
    /\ Len(phrase) >= 3
    /\ ~(Len(ws) = 1 /\ ws[1] \in junk_words)
    /\ \E w \in Range(ws) : Len(w) >= 3 /\ w \notin junk_words)

\* the filters of the verb branch (lines 755-770)
KeepVerbObject(phrase) ==
  Then(SplitWs(LowerStr(phrase)), LAMBDA ws :
    /\ Len(phrase) >= 3
    /\ ~(Len(ws) = 1 /\ LowerStr(phrase) \in junk_words)
    /\ ~(\A w \in Range(ws) : w \in junk_words)
    /\ \E w \in Range(ws) : Len(w) >= 3 /\ w \notin junk_words)

\* the candidate phrases one instruction contributes, in order
PhrasesOfStep(step) ==
  Then(ReMatch(CombinePattern, LowerStr(step), MState(1)), LAMBDA cm :
    IF Len(cm) > 0
    THEN FilterSeq(
           MapSeq(ReSplit(ItemSplit,
                          SubSeq(step, cm[1].g[2][1], cm[1].g[2][2] - 1)),
                  CleanPhrase),
           KeepCombined)
    ELSE FilterSeq(
           MapSeq(ReFindIter(VerbObjectPattern, LowerStr(step), 1),
                  LAMBDA m : CleanPhrase(GroupOf(step, m, 2))),
           KeepVerbObject))

RECURSIVE PhrasesOfSteps(_, _)
PhrasesOfSteps(steps, n) ==
  IF n > Len(steps) THEN <<>>
  ELSE PhrasesOfStep(steps[n]) \o PhrasesOfSteps(steps, n + 1)

\* step 2 of format_recipe_output (lines 706-775): the phrases of all
\* instructions, the first of each lower-cased spelling only
IngredientsOfInstructions(instruction_list) ==
  Then(PhrasesOfSteps(instruction_list, 1), LAMBDA phrases :
    KeepIdx(phrases,
            LAMBDA k : \A j \in 1..(k - 1) :
                         LowerStr(phrases[j]) # LowerStr(phrases[k]),
            1, Len(phrases)))

\* step 3 of format_recipe_output (lines 778-788)
NutritionList(payload) ==
  IF IsFilledList(Get(payload, "nutrients", ListVal(<<>>)))
  THEN StripKeep(payload["nutrients"].v, 1)
  ELSE IF Get(payload, "nutrients_text", NoneVal).t = "str"
  THEN StripKeep(Split(payload["nutrients_text"].v, ","), 1)
  ELSE extract_nutrition_info(Get(payload, "text", StrVal("")).v)

\* the placeholders of the main formatter, by language
MainPlaceholders(language) ==
  IF language = "indonesian"
  THEN [ingredients |-> "- (Bahan tidak terdeteksi)",
        instruction |-> "- (Langkah tidak tersedia)",
        nutrition |-> "- Tidak tersedia"]
  ELSE [ingredients |-> "- (Ingredients not detected)",
        instruction |-> "- (Steps not available)",
        nutrition |-> "- Not available"]

\* what format_recipe_output extracts before it writes (lines 670-788)
MainParts(payload) ==
  Then(InstructionList(payload), LAMBDA instruction_list :
  Then(IngredientsOfInstructions(instruction_list), LAMBDA ingredients :
  Then(NutritionList(payload), LAMBDA nutrition_list :
    [ingredients |-> ingredients, instruction_list |-> instruction_list,
     nutrition_list |-> nutrition_list])))

\* the document format_recipe_output writes from them (lines 790-844)
MainDocument(parts, payload, language) ==
  LET name == Rendered(Get(payload, "recipe_name", StrVal("Tanpa Judul")))
      ph == MainPlaceholders(language)
      output == <<"# " \o name, "---", "## Ingredients">>
                \o (IF Len(parts.ingredients) > 0
                    THEN Bulleted(parts.ingredients)
                    ELSE <<ph.ingredients>>)
                \o <<"## Instruction">>
                \o (IF Len(parts.instruction_list) > 0
                    THEN Bulleted(parts.instruction_list)
                    ELSE <<ph.instruction>>)
                \o <<"## Nutrition">>
                \o (IF Len(parts.nutrition_list) > 0
                    THEN Bulleted(parts.nutrition_list)
                    ELSE <<ph.nutrition>>)
  IN Join(output, "\n")

\* format_recipe_output for a payload that does not make it raise
format_recipe_output(payload, language) ==
  Then(MainParts(payload), LAMBDA parts :
    MainDocument(parts, payload, language))

\* ------------------------------------------------------------------------
\* The search request (search_recipes) and its collaborators
\* ------------------------------------------------------------------------
\* scores are held in hundredths: 30 is 0.30
SCORE_THRESHOLD == 30

\* the queries a caller sends
Queries == <<"apple pie", "resep kue coklat", "kue", "Danish pastry">>

\* the largest top_k a caller asks for
MaxTopK == 3

\* records the collection holds; the last one has a null text, as a record
\* written by another tool can
ApplePie ==
  [recipe_name |-> StrVal("Apple Pie"),
   text |-> StrVal("Apple Pie\n\nLangkah-langkah:\nPeel and core apples. Combine sugar and flour in a bowl."),
   steps |-> ListVal(<<"Peel and core apples.", "Combine sugar and flour in a bowl.">>),
   steps_text |-> StrVal("Peel and core apples.; Combine sugar and flour in a bowl."),
   nutrients |-> ListVal(<<"Calories: 250">>)]
KueCoklat ==
  [recipe_name |-> StrVal("Kue Coklat"),
   steps_text |-> StrVal("Melt butter in a saucepan over low heat; Stir the batter until smooth."),
   nutrients_text |-> StrVal("Calories 300, Fat 12g")]
Untitled == [text |-> StrVal("Add 200 g rice to the pot. Cook for 20 minutes.")]
NullText == [recipe_name |-> StrVal("Broken"), text |-> NoneVal]

Point(payload, score) == [has_payload |-> TRUE, payload |-> payload, score |-> score]
\* a point stored without a payload
BarePoint(score) == [has_payload |-> FALSE, payload |-> <<>>, score |-> score]

\* the ranked answers of the vector store to a query, best first, before the
\* limit is applied
Rankings ==
  << <<>>,
     <<Point(ApplePie, 25), Point(KueCoklat, 10)>>,
     <<BarePoint(29)>>,
     <<Point(ApplePie, 30), Point(Untitled, 12)>>,
     <<Point(KueCoklat, 85), Point(ApplePie, 31), BarePoint(30)>>,
     <<Point(Untitled, 90), Point(NullText, 80), Point(ApplePie, 50)>> >>

\* what str(e) is for the failures of the collaborators
EmbedError == "embedding model unavailable"
StoreError == "connection refused"
FormatError == "'NoneType' object has no attribute 'strip'"

\* a gate that also turns away a score equal to the threshold
BelowThresholdOrAt(score) == score <= SCORE_THRESHOLD

\* the test of the WEAK gate on a score (line 1131)
BelowThreshold(score) == score < SCORE_THRESHOLD

\* point.payload or {}
PayloadOf(point) == IF point.has_payload THEN point.payload ELSE <<>>

\* a not-found entry that ignores the language of the query
NotFoundEntryUnlocalized(language) ==
  [recipe_name |-> "Not Found",
   text |-> "## Sorry, Recipe Not Found\n\n"
            \o "The recipe you're looking for is not in our database.",
   score |-> 0,
   not_found |-> TRUE]

\* the single entry of the EMPTY outcome (lines 1100-1125); the pictographs
\* of the source texts are outside ASCII and are left out
NotFoundEntry(language) ==
  IF language = "indonesian"
  THEN [recipe_name |-> "Tidak Ditemukan",
        text |-> "## Maaf, Resep Tidak Ditemukan\n\n"
                 \o "Resep yang Anda cari tidak ada di database kami.\n\n"
                 \o "### Saran:\n"
                 \o "- Coba kata kunci yang berbeda\n"
                 \o "- Periksa ejaan resep\n"
                 \o "- Cari resep serupa yang mungkin tersedia\n\n"
                 \o "**Mau saya rekomendasikan resep populer lainnya?**",
        score |-> 0,
        not_found |-> TRUE]
  ELSE [recipe_name |-> "Not Found",
        text |-> "## Sorry, Recipe Not Found\n\n"
                 \o "The recipe you're looking for is not in our database.\n\n"
                 \o "### Suggestions:\n"
                 \o "- Try different keywords\n"
                 \o "- Check the recipe spelling\n"
                 \o "- Search for similar recipes\n\n"
                 \o "**Would you like me to recommend other popular recipes?**",
        score |-> 0,
        not_found |-> TRUE]

\* a WEAK entry that reports the score 0.0 of the EMPTY entry
NotRelevantEntryZeroScore(language, q, best) ==
  [recipe_name |-> IF language = "indonesian" THEN "Tidak Relevan"
                   ELSE "Not Relevant",
   text |-> "## Hmm, No Match Found\n\n"
            \o "I found some recipes, but none match **'" \o q \o "'** well.",
   score |-> 0,
   not_found |-> TRUE]

\* a WEAK entry whose text leaves the query out
NotRelevantEntryNoQuery(language, q, best) ==
  [recipe_name |-> IF language = "indonesian" THEN "Tidak Relevan"
                   ELSE "Not Relevant",
   text |-> "## Hmm, No Match Found\n\n"
            \o "I found some recipes, but none match well.",
   score |-> best,
   not_found |-> TRUE]

\* the single entry of the WEAK outcome (lines 1134-1159)
NotRelevantEntry(language, q, best) ==
  IF language = "indonesian"
  THEN [recipe_name |-> "Tidak Relevan",
        text |-> "## Hmm, Tidak Ada yang Cocok\n\n"
                 \o "Saya menemukan beberapa resep, tapi tidak ada yang cocok dengan **'"
                 \o q \o "'**.\n\n"
                 \o "### Coba:\n"
                 \o "- Gunakan nama resep yang lebih spesifik\n"
                 \o "- Cari berdasarkan bahan utama\n"
                 \o "- Tanyakan kategori makanan (misal: 'kue', 'ayam', 'pasta')\n\n"
                 \o "**Atau mau saya carikan resep populer?**",
        score |-> best,
        not_found |-> TRUE]
  ELSE [recipe_name |-> "Not Relevant",
        text |-> "## Hmm, No Match Found\n\n"
                 \o "I found some recipes, but none match **'" \o q
                 \o "'** well.\n\n"
                 \o "### Try:\n"
                 \o "- Use more specific recipe names\n"
                 \o "- Search by main ingredient\n"
                 \o "- Ask for food categories (e.g., 'cake', 'chicken', 'pasta')\n\n"
                 \o "**Or would you like popular recipe suggestions?**",
        score |-> best,
        not_found |-> TRUE]

\* the entry of one formatted hit (lines 1168-1180)
HitEntry(point, language) ==
  [recipe_name |-> Get(PayloadOf(point), "recipe_name", StrVal("Tanpa Judul")).v,
   text |-> format_recipe_output(PayloadOf(point), language),
   score |-> point.score,
   not_found |-> FALSE]

\* the single entry the exception handler returns (lines 1184-1196)
ErrorEntry(language, message) ==
  [recipe_name |-> IF language = "english" THEN "Error" ELSE "Kesalahan",
   text |-> IF language = "indonesian"
            THEN "## System Error\n\n" \o message
                 \o "\n\nSilakan coba lagi atau hubungi admin."
            ELSE "## System Error\n\n" \o message
                 \o "\n\nPlease try again or contact admin.",
   score |-> 0,
   error |-> message]

VARIABLES
  pc,          \* where the request is: idle, embed, query, gate, format, done
  query,       \* the query of the request
  top_k,       \* its limit
  points,      \* search_result.points
  hits,        \* the local list of formatted hits
  result,      \* the list returned to the caller
  calls,       \* the collaborator and formatter calls of the request, in order
  error,       \* the exception the handler caught, if any, with its str(e)
  model_,      \* is the embedding model cached (_model is not None)
  client_,     \* is the vector-store client cached (_client is not None)
  fmt_call,    \* the formatter call a caller made: the function and arguments
  fmt_out,     \* what that call extracted and the document it returned
  genai_available,  \* is the generative model configured (set at import)
  gen_call,    \* the call of the assisted path: the function and arguments
  gen_tried,   \* the models tried so far in that call, with their answers
  fallback,    \* the local variable fallback of llm_extract_structured
  gen_out,     \* what the call returned
  model_gemini,   \* src/rag_core.py: is its generative model configured
  root_pc,     \* where its search request is: idle, search, loop, done
  root_top_k,  \* the limit of that request
  root_points, \* result.points
  root_hits,   \* its local list of hits
  root_result, \* the list it returned
  generated,   \* the loop indexes i at which generate_content was called
  root_client, \* its global _client: none, or a client, checked or unchecked
  root_got,    \* the client get_client returned to the request, if it did
  worker,      \* per worker thread: where it is, and the handles it got
  shared,      \* the module globals _model and _client (0 is None)
  built        \* how many models and clients were constructed so far

vars == <<pc, query, top_k, points, hits, result, calls, error, model_, client_,
          fmt_call, fmt_out,
          genai_available, gen_call, gen_tried, fallback, gen_out,
          model_gemini, root_pc, root_top_k, root_points, root_hits,
          root_result, generated, root_client, root_got,
          worker, shared, built>>

\* the variables of a search request, and those of a direct formatter call
search_vars == <<pc, query, top_k, points, hits, result, calls, error,
                 model_, client_>>
format_vars == <<fmt_call, fmt_out>>
assist_vars == <<genai_available, gen_call, gen_tried, fallback, gen_out>>
\* the variables of a search request of src/rag_core.py, and those of the
\* worker threads of the service
root_vars == <<model_gemini, root_pc, root_top_k, root_points, root_hits,
               root_result, generated, root_client, root_got>>
thread_vars == <<worker, shared, built>>

\* the worker threads of the pool that asyncio.to_thread runs requests on
MaxThreads == 2
Threads == 1..MaxThreads

\* a worker that runs no request: it is in no function and holds no handle
IdleWorker == [pc |-> "idle", fn |-> "none", model |-> 0, client |-> 0]

\* no formatter call is in progress
NoCall == [fn |-> "none"]

\* no exception was caught
NoError == [caught |-> FALSE, message |-> ""]

\* no request and no call is in progress, nothing is cached or built
Quiet ==
  /\ pc = "idle"
  /\ query = ""
  /\ top_k = 0
  /\ points = <<>>
  /\ hits = <<>>
  /\ result = <<>>
  /\ calls = <<>>
  /\ error = NoError
  /\ model_ = FALSE
  /\ client_ = FALSE
  /\ fmt_call = NoCall
  /\ fmt_out = NoCall
  /\ gen_call = NoCall
  /\ gen_tried = <<>>
  /\ fallback = NoCall
  /\ gen_out = NoCall
  /\ root_pc = "idle"
  /\ root_top_k = 0
  /\ root_points = <<>>
  /\ root_hits = <<>>
  /\ root_result = <<>>
  /\ generated = <<>>
  /\ root_client = "none"
  /\ root_got = "none"
  /\ worker = [t \in Threads |-> IdleWorker]
  /\ shared = [model |-> 0, client |-> 0]
  /\ built = [model |-> 0, client |-> 0]

\* the state after the import of src/backend/rag_core.py: the generative
\* model is configured or it is not (lines 77-93); src/rag_core.py, the
\* other module of this name, is not loaded
Init ==
  /\ Quiet
  /\ genai_available \in BOOLEAN
  /\ model_gemini = FALSE

\* a caller invokes search_recipes(q, k)
Request(q, k) ==
  /\ pc = "idle"
  /\ pc' = "embed"
  /\ query' = q
  /\ top_k' = k
  /\ points' = <<>>
  /\ hits' = <<>>
  /\ result' = <<>>
  /\ calls' = <<>>
  /\ error' = NoError
  /\ UNCHANGED <<model_, client_>>
  /\ UNCHANGED <<format_vars, assist_vars, root_vars, thread_vars>>

\* an except clause that returns the hits formatted so far with the error
HandleKeepingHits(message) ==
  /\ error' = [caught |-> TRUE, message |-> message]
  /\ result' = Append(hits, ErrorEntry(detect_language(query), message))
  /\ pc' = "done"

\* the except clause (lines 1184-1196): the request returns one error entry
Handle(message) ==
  /\ error' = [caught |-> TRUE, message |-> message]
  /\ result' = <<ErrorEntry(detect_language(query), message)>>
  /\ pc' = "done"

\* embed_text(query) returns the vector (line 1082)
Embed ==
  /\ pc = "embed"
  /\ calls' = Append(calls, "embed")
  /\ model_' = TRUE
  /\ pc' = "query"
  /\ UNCHANGED <<query, top_k, points, hits, result, error, client_>>
  /\ UNCHANGED <<format_vars, assist_vars, root_vars, thread_vars>>

\* embed_text(query) raises: while the model is loaded (nothing is cached)
\* or while the query is encoded
EmbedRaises ==
  /\ pc = "embed"
  /\ calls' = Append(calls, "embed")
  /\ \E loaded \in {model_, TRUE} : model_' = loaded
  /\ Handle(EmbedError)
  /\ UNCHANGED <<query, top_k, points, hits, client_>>
  /\ UNCHANGED <<format_vars, assist_vars, root_vars, thread_vars>>

\* get_client() and query_points(limit=top_k) return the r-th ranking, cut
\* to the limit (lines 1083-1092)
Search(r) ==
  /\ pc = "query"
  /\ calls' = Append(calls, "query")
  /\ client_' = TRUE
  /\ points' = SubSeq(Rankings[r], 1,
                      IF Len(Rankings[r]) < top_k THEN Len(Rankings[r]) ELSE top_k)
  /\ pc' = "gate"
  /\ UNCHANGED <<query, top_k, hits, result, error, model_>>
  /\ UNCHANGED <<format_vars, assist_vars, root_vars, thread_vars>>

\* get_client() or query_points raises
SearchRaises ==
  /\ pc = "query"
  /\ calls' = Append(calls, "query")
  /\ \E made \in {client_, TRUE} : client_' = made
  /\ Handle(StoreError)
  /\ UNCHANGED <<query, top_k, points, hits, model_>>
  /\ UNCHANGED <<format_vars, assist_vars, root_vars, thread_vars>>

\* an EMPTY outcome that returns the empty list of points
ReturnNoEntry ==
  /\ pc = "gate"
  /\ Len(points) = 0
  /\ result' = <<>>
  /\ pc' = "done"
  /\ UNCHANGED <<query, top_k, points, hits, calls, error, model_, client_>>
  /\ UNCHANGED <<format_vars, assist_vars, root_vars, thread_vars>>

\* no points: the EMPTY outcome (lines 1097-1125)
ReturnNotFound ==
  /\ pc = "gate"
  /\ Len(points) = 0
  /\ result' = <<NotFoundEntry(detect_language(query))>>
  /\ pc' = "done"
  /\ UNCHANGED <<query, top_k, points, hits, calls, error, model_, client_>>
  /\ UNCHANGED <<format_vars, assist_vars, root_vars, thread_vars>>

\* a WEAK outcome that formats the best point before it turns it away
ReturnNotRelevantFormatted ==
  /\ pc = "gate"
  /\ Len(points) > 0
  /\ BelowThreshold(points[1].score)
  /\ calls' = Append(calls, "format")
  /\ result' = <<NotRelevantEntry(detect_language(query), query, points[1].score)>>
  /\ pc' = "done"
  /\ UNCHANGED <<query, top_k, points, hits, error, model_, client_>>
  /\ UNCHANGED <<format_vars, assist_vars, root_vars, thread_vars>>

\* the best score is under the threshold: the WEAK outcome (lines 1131-1159)
ReturnNotRelevant ==
  /\ pc = "gate"
  /\ Len(points) > 0
  /\ BelowThreshold(points[1].score)
  /\ result' = <<NotRelevantEntry(detect_language(query), query, points[1].score)>>
  /\ pc' = "done"
  /\ UNCHANGED <<query, top_k, points, hits, calls, error, model_, client_>>
  /\ UNCHANGED <<format_vars, assist_vars, root_vars, thread_vars>>

\* otherwise the points are formatted (lines 1164-1165)
StartFormatting ==
  /\ pc = "gate"
  /\ Len(points) > 0
  /\ ~BelowThreshold(points[1].score)
  /\ pc' = "format"
  /\ UNCHANGED <<query, top_k, points, hits, result, calls, error, model_, client_>>
  /\ UNCHANGED <<format_vars, assist_vars, root_vars, thread_vars>>

\* a turn of the loop that tests the score of each point against the
\* threshold and flags a point under it as not found
FormatHitGated ==
  /\ pc = "format"
  /\ Len(hits) < Len(points)
  /\ ~FormatRaises(PayloadOf(points[Len(hits) + 1]))
  /\ calls' = Append(calls, "format")
  /\ hits' = Append(hits,
                    [HitEntry(points[Len(hits) + 1], detect_language(query))
                       EXCEPT !.not_found =
                         BelowThreshold(points[Len(hits) + 1].score)])
  /\ UNCHANGED <<pc, query, top_k, points, result, error, model_, client_>>
  /\ UNCHANGED <<format_vars, assist_vars, root_vars, thread_vars>>

\* one turn of the loop: the next point is formatted and appended
\* (lines 1167-1180)
FormatHit ==
  /\ pc = "format"
  /\ Len(hits) < Len(points)
  /\ ~FormatRaises(PayloadOf(points[Len(hits) + 1]))
  /\ calls' = Append(calls, "format")
  /\ hits' = Append(hits, HitEntry(points[Len(hits) + 1], detect_language(query)))
  /\ UNCHANGED <<pc, query, top_k, points, result, error, model_, client_>>
  /\ UNCHANGED <<format_vars, assist_vars, root_vars, thread_vars>>

\* format_recipe_output raises on the next point
FormatHitRaises ==
  /\ pc = "format"
  /\ Len(hits) < Len(points)
  /\ FormatRaises(PayloadOf(points[Len(hits) + 1]))
  /\ calls' = Append(calls, "format")
  /\ Handle(FormatError)
  /\ UNCHANGED <<query, top_k, points, hits, model_, client_>>
  /\ UNCHANGED <<format_vars, assist_vars, root_vars, thread_vars>>

\* an OK outcome that returns only the hits that pass the threshold
ReturnHitsAboveThreshold ==
  /\ pc = "format"
  /\ Len(hits) = Len(points)
  /\ result' = FilterSeq(hits, LAMBDA h : ~BelowThreshold(h.score))
  /\ pc' = "done"
  /\ UNCHANGED <<query, top_k, points, hits, calls, error, model_, client_>>
  /\ UNCHANGED <<format_vars, assist_vars, root_vars, thread_vars>>

\* every point is formatted: the OK outcome (line 1182)
ReturnHits ==
  /\ pc = "format"
  /\ Len(hits) = Len(points)
  /\ result' = hits
  /\ pc' = "done"
  /\ UNCHANGED <<query, top_k, points, hits, calls, error, model_, client_>>
  /\ UNCHANGED <<format_vars, assist_vars, root_vars, thread_vars>>

\* the caller has the result; the process waits for the next request
Finish ==
  /\ pc = "done"
  /\ pc' = "idle"
  /\ query' = ""
  /\ top_k' = 0
  /\ points' = <<>>
  /\ hits' = <<>>
  /\ result' = <<>>
  /\ calls' = <<>>
  /\ error' = NoError
  /\ UNCHANGED <<model_, client_>>
  /\ UNCHANGED <<format_vars, assist_vars, root_vars, thread_vars>>

Next ==
  \/ \E q \in Range(Queries), k \in 1..MaxTopK : Request(q, k)
  \/ Embed
  \/ EmbedRaises
  \/ \E r \in 1..Len(Rankings) : Search(r)
  \/ SearchRaises
  \/ ReturnNotFound
  \/ ReturnNotRelevant
  \/ StartFormatting
  \/ FormatHit
  \/ FormatHitRaises
  \/ ReturnHits
  \/ Finish

Spec == Init /\ [][Next]_vars

\* ------------------------------------------------------------------------
\* Direct calls of the two formatters
\* ------------------------------------------------------------------------
Languages == <<"english", "indonesian">>

\* more records of the kinds a collection holds: steps as a list, steps as
\* one text, only a raw text, empty fields, a null name
SugarCookies ==
  [recipe_name |-> StrVal("Sugar Cookies"),
   steps |-> ListVal(<<"Use the oven to bake.",
                       "Add sweet brown sugar to taste.",
                       "sweet brown sugar",
                       "Place all pieces on the sheet.">>)]
Soup ==
  [recipe_name |-> StrVal("Soup"),
   steps_text |-> StrVal("Mix the broth and salt; then serve hot. Add some fresh parsley to the soup.;Stir the pot until thick. John D"),
   nutrients_text |-> StrVal("Calories 100, Protein 3g,, ")]
Cake ==
  [recipe_name |-> StrVal("Cake"),
   text |-> StrVal("Cake 500 g flour. Stir well until smooth.\nCalories: 250 per serving")]
Tea ==
  [recipe_name |-> StrVal("Tea"), text |-> StrVal("Tea"),
   steps |-> ListVal(<<>>), nutrients |-> ListVal(<<>>)]
Blank ==
  [recipe_name |-> StrVal("Z"), steps_text |-> StrVal(""),
   nutrients_text |-> StrVal("")]
Nameless ==
  [recipe_name |-> NoneVal,
   steps |-> ListVal(<<"Whisk the eggs and sugar until pale and thick.">>),
   nutrients_text |-> StrVal("a")]
NullName == [recipe_name |-> NoneVal]
\* records whose structured fields say less than their raw text: the only
\* step is too short to be kept
Toast ==
  [recipe_name |-> StrVal("Toast"),
   text |-> StrVal("Toast\n\nLangkah-langkah:\nToast the bread slices until golden brown.\n\nNutrisi:\nProtein: 3 g"),
   steps |-> ListVal(<<"Toast bread.">>),
   nutrients |-> ListVal(<<"Calories: 80">>)]
Porridge ==
  [recipe_name |-> StrVal("Porridge"),
   text |-> StrVal("Porridge\nSimmer the oats in milk for ten minutes.\nProtein: 5 g"),
   steps_text |-> StrVal("Stir oats."),
   nutrients_text |-> StrVal("Calories 90")]
\* a record with only a raw text, which says one sentence twice
Gravy ==
  [recipe_name |-> StrVal("Gravy"),
   text |-> StrVal("Stir the sauce slowly. stir the sauce slowly. Serve it while warm.")]

Payloads ==
  <<ApplePie, KueCoklat, Untitled, SugarCookies, Soup, Cake, Tea, Blank,
    Nameless, <<>>, NullText, NullName, Toast, Porridge, Gravy>>

\* the raw texts handed to local_format_to_markdown, with the recipe name
RawRecipes ==
  << [recipe_name |-> "Cake", raw_text |-> "500 g flour"],
     [recipe_name |-> "Cake", raw_text |-> "Cake 500 g flour. Stir well until smooth."],
     [recipe_name |-> "Salad", raw_text |-> "Fresh basil leaves"],
     [recipe_name |-> "Pancake", raw_text |-> "500 g flour\nMix flour and eggs until smooth."],
     [recipe_name |-> "Cookies", raw_text |-> "2 cups flour. Preheat oven to 350F. Mix flour and sugar."],
     [recipe_name |-> "Onions", raw_text |-> "Melt butter in a pan. Add onions and garlic, then stir."],
     [recipe_name |-> "Pie", raw_text |-> "1 (9-inch) pie crust\n3 to 4 lbs apples\n2-3 cloves garlic"],
     [recipe_name |-> "Rice", raw_text |-> "Add 200 g rice to the pot. Cook for 20 minutes."],
     [recipe_name |-> "Bread", raw_text |-> "Calories: 250 per serving\n500 g flour\n12 mg salt"],
     [recipe_name |-> "None", raw_text |-> ""],
     [recipe_name |-> "Apples", raw_text |-> "Peel and core apples. Slice apples thinly."],
     [recipe_name |-> "Tumis", raw_text |-> "Bahan: 2 siung bawang, 3 buah tomat. Tumis bawang."],
     [recipe_name |-> "Sponge", raw_text |-> "- 2 eggs\n- 100 g sugar\n- 1 tsp vanilla extract\nBeat eggs. Fold in flour."],
     [recipe_name |-> "Chicken", raw_text |-> "Use fresh basil for garnish. Put the chicken into the oven."],
     [recipe_name |-> "Apple Pie", raw_text |-> "Apple Pie\nApple pie is best served warm. Peel the apples."],
     [recipe_name |-> "Beans", raw_text |-> "200 g baked beans\n100 g baked beans"],
     [recipe_name |-> "Dough", raw_text |-> "1. Mix flour and water well.\nmix flour and water well.\n2) Knead the dough gently.\nKnead the dough gently.\n\n 3. Mix flour and water well. \nLet the dough rest."],
     [recipe_name |-> "Loaf", raw_text |-> "500 g white flour - the plain white flour"],
     [recipe_name |-> "Sauce", raw_text |-> "Stir the sauce slowly. stir the sauce slowly. Serve it while warm."] >>

\* the ingredients_list argument: None, or a list the caller supplies
IngredientLists ==
  << <<>>, <<"Fresh basil leaves">>, <<"500 g flour", "2 eggs ">> >>

\* a caller invokes format_recipe_output(payload, language) on a record that
\* does not make it raise
FormatRecipeOutput(p, language) ==
  /\ fmt_call = NoCall
  /\ ~FormatRaises(Payloads[p])
  /\ fmt_call' = [fn |-> "format_recipe_output", payload |-> Payloads[p],
                  language |-> language]
  /\ fmt_out' = Then(MainParts(Payloads[p]), LAMBDA parts :
                  [raised |-> FALSE, parts |-> parts,
                   doc |-> MainDocument(parts, Payloads[p], language)])
  /\ UNCHANGED <<search_vars, assist_vars, root_vars, thread_vars>>

\* format_recipe_output raises on the record (AttributeError)
FormatRecipeOutputRaises(p, language) ==
  /\ fmt_call = NoCall
  /\ FormatRaises(Payloads[p])
  /\ fmt_call' = [fn |-> "format_recipe_output", payload |-> Payloads[p],
                  language |-> language]
  /\ fmt_out' = [raised |-> TRUE]
  /\ UNCHANGED <<search_vars, assist_vars, root_vars, thread_vars>>

\* a caller invokes local_format_to_markdown(raw_text, recipe_name, language,
\* ingredients_list)
LocalFormatToMarkdown(r, language, i) ==
  /\ fmt_call = NoCall
  /\ fmt_call' = [fn |-> "local_format_to_markdown",
                  raw_text |-> RawRecipes[r].raw_text,
                  recipe_name |-> RawRecipes[r].recipe_name,
                  language |-> language,
                  ingredients_list |-> IngredientLists[i]]
  /\ fmt_out' = Then(LocalParts(RawRecipes[r].raw_text,
                                RawRecipes[r].recipe_name,
                                IngredientLists[i]), LAMBDA parts :
                  [raised |-> FALSE, parts |-> parts,
                   doc |-> LocalDocument(parts, RawRecipes[r].recipe_name,
                                         language)])
  /\ UNCHANGED <<search_vars, assist_vars, root_vars, thread_vars>>

\* the caller has the document
FormatReturn ==
  /\ fmt_call # NoCall
  /\ fmt_call' = NoCall
  /\ fmt_out' = NoCall
  /\ UNCHANGED <<search_vars, assist_vars, root_vars, thread_vars>>

NextFormat ==
  \/ \E p \in 1..Len(Payloads), language \in Range(Languages) :
       FormatRecipeOutput(p, language)
  \/ \E p \in 1..Len(Payloads), language \in Range(Languages) :
       FormatRecipeOutputRaises(p, language)
  \/ \E r \in 1..Len(RawRecipes), language \in Range(Languages),
        i \in 1..Len(IngredientLists) :
       LocalFormatToMarkdown(r, language, i)
  \/ FormatReturn

SpecFormat == Init /\ [][NextFormat]_vars

\* ------------------------------------------------------------------------
\* The assisted path (format_with_gemini, llm_extract_structured)
\* ------------------------------------------------------------------------
\* the models the two functions try, in order (lines 921 and 988)
FormatterModels == <<"gemini-1.5-pro", "gemini-1.5-flash", "gemini-pro">>
ExtractorModels == <<"gemini-1.5-flash", "gemini-1.5-pro", "gemini-pro">>

\* what json.loads makes of a text: it raises, or it returns a value; a
\* JSON object is a function from its keys to tagged values
NoJson == [ok |-> FALSE]
JsonObject(d) == [ok |-> TRUE, dict |-> TRUE, v |-> d]
JsonOther == [ok |-> TRUE, dict |-> FALSE]

\* an answer of the generative model: generate_content raises, or it
\* returns a text; loads is json.loads of the text and block json.loads of
\* its brace block (the JSON parser of the library is not modelled: each
\* answer states what the parser returns for it)
Raising == [raises |-> TRUE]
Answer(text, loads, block) ==
  [raises |-> FALSE, text |-> text, loads |-> loads, block |-> block]

SugarObject ==
  [ingredients |-> ListVal(<<" 2 Cups  Sugar,", "2 cups sugar",
                             "3 Tablespoons butter", "-",
                             "100 Grams\tflour">>),
   instructions |-> ListVal(<<"Mix  the sugar and butter.", "Bake",
                              " Serve warm and enjoy. ">>),
   text_id |-> StrVal("## Kue Gula")]
OtherKeysObject ==
  [ing |-> ListVal(<<"1 Teaspoon salt">>),
   steps |-> ListVal(<<"Season the soup well.">>),
   indonesian_markdown |-> StrVal("## Sup")]
\* an answer that is valid JSON but names no ingredient
EmptyIngredientsObject ==
  [ingredients |-> ListVal(<<>>),
   instructions |-> ListVal(<<"Mix the flour and the eggs.">>)]

Answers ==
  <<Raising,
    Answer("not json", NoJson, NoJson),
    Answer("## Cake\n\n### Ingredients\n- flour", NoJson, NoJson),
    Answer("Sorry {no recipe}", NoJson, NoJson),
    Answer("Here is the JSON: {\"ingredients\": [\" 2 Cups  Sugar,\", \"2 cups sugar\", \"3 Tablespoons butter\", \"-\", \"100 Grams\\tflour\"], \"instructions\": [\"Mix  the sugar and butter.\", \"Bake\", \" Serve warm and enjoy. \"], \"text_id\": \"## Kue Gula\"}",
           NoJson, JsonObject(SugarObject)),
    Answer("{\"ingredients\": [\" 2 Cups  Sugar,\", \"2 cups sugar\", \"3 Tablespoons butter\", \"-\", \"100 Grams\\tflour\"], \"instructions\": [\"Mix  the sugar and butter.\", \"Bake\", \" Serve warm and enjoy. \"], \"text_id\": \"## Kue Gula\"}",
           JsonObject(SugarObject), JsonObject(SugarObject)),
    Answer("{\"ing\": [\"1 Teaspoon salt\"], \"steps\": [\"Season the soup well.\"], \"indonesian_markdown\": \"## Sup\"}",
           JsonObject(OtherKeysObject), JsonObject(OtherKeysObject)),
    Answer("[1, 2]", JsonOther, NoJson),
    Answer("{\"ingredients\": [], \"instructions\": [\"Mix the flour and the eggs.\"]}",
           JsonObject(EmptyIngredientsObject),
           JsonObject(EmptyIngredientsObject))>>

\* bool(x) of a tagged value
Truthy(x) == (x.t = "str" /\ x.v # "") \/ (x.t = "list" /\ Len(x.v) > 0)

\* x or y
OrElse(x, y) == IF Truthy(x) THEN x ELSE y

\* \bword(s)?\b, its plural optional
UnitName(word) == Cat(<<Wb, Lit(word), Opt(Lit("s")), Wb>>)

\* normalize_ingredient (lines 1004-1019)
normalize_ingredient(s) ==
  Then(TrimNonAlNum(Strip(s)), LAMBDA s1 :
  Then(Strip(Join(Split(Join(Split(s1, "\t"), " "), "\n"), " ")), LAMBDA s2 :
  Then(ReSubI(UnitName("tablespoon"), "tbsp", s2), LAMBDA s3 :
  Then(ReSubI(UnitName("teaspoon"), "tsp", s3), LAMBDA s4 :
  Then(ReSubI(UnitName("gram"), "g", s4), LAMBDA s5 :
  Then(ReSubI(UnitName("kilogram"), "kg", s5), LAMBDA s6 :
  Then(ReSubI(UnitName("milliliter"), "ml", s6), LAMBDA s7 :
  Then(ReSubI(UnitName("cup"), "cup", s7), LAMBDA s8 :
    ReSub(Rep(In(Space), 2, Unbounded), " ", s8)))))))))

\* the ingredients of a parsed answer, normalized (lines 1021-1036)
NormalizedIngredients(ingredients) ==
  IF ingredients.t # "list" THEN <<>>
  ELSE UniqLower(FilterSeq(MapSeq(ingredients.v, normalize_ingredient),
                           LAMBDA n : AlphaCount(n) >= 2),
                 1, {})

\* the instructions of a parsed answer, normalized (lines 1039-1048)
NormalizedInstructions(instructions) ==
  IF instructions.t # "list" THEN <<>>
  ELSE FilterSeq(MapSeq(instructions.v,
                        LAMBDA st : Strip(ReSub(Plus(In(Space)), " ",
                                                Strip(st)))),
                 LAMBDA stt : Len(stt) >= 6)

\* what llm_extract_structured returns for an answer that is a JSON object
\* (lines 997-1054)
FromObject(parsed) ==
  [ingredients |->
     NormalizedIngredients(
       OrElse(OrElse(Get(parsed, "ingredients", NoneVal),
                     Get(parsed, "ing", NoneVal)), ListVal(<<>>))),
   instructions |->
     NormalizedInstructions(
       OrElse(OrElse(Get(parsed, "instructions", NoneVal),
                     Get(parsed, "steps", NoneVal)), ListVal(<<>>))),
   text_id |->
     OrElse(OrElse(Get(parsed, "text_id", NoneVal),
                   Get(parsed, "indonesian_markdown", NoneVal)),
            StrVal("")).v]

\* \{[\s\S]*\}
BraceBlock == Cat(<<Lit("{"), Star(NotIn({})), Lit("}")>>)

\* what it returns for the brace block of an answer (lines 1058-1065)
FromBlock(parsed) ==
  [ingredients |-> OrElse(Get(parsed, "ingredients", NoneVal), ListVal(<<>>)).v,
   instructions |-> OrElse(Get(parsed, "instructions", NoneVal), ListVal(<<>>)).v,
   text_id |-> OrElse(Get(parsed, "text_id", NoneVal), StrVal("")).v]

\* what llm_extract_structured returns once generate_content has returned
\* a text (lines 993-1069)
ExtractedFrom(answer, local) ==
  IF answer.loads.ok /\ answer.loads.dict THEN FromObject(answer.loads.v)
  ELSE IF ReFound(BraceBlock, Strip(answer.text))
          /\ answer.block.ok /\ answer.block.dict
  THEN FromBlock(answer.block.v)
  ELSE local

\* the fallback result llm_extract_structured builds first (lines 951-960)
LocalExtraction(raw_text, recipe_name) ==
  Then(extract_ingredients_from_text(raw_text), LAMBDA fallback_ings :
    [ingredients |-> fallback_ings,
     instructions |-> extract_steps(raw_text, recipe_name, <<>>),
     text_id |-> local_format_to_markdown(raw_text, recipe_name,
                                          "indonesian", fallback_ings)])

\* the inputs of the assisted calls: the raw recipes, the user queries and
\* the ingredients lists, and the answers of the model to format_with_gemini
AssistedRecipes == SubSeq(RawRecipes, 1, 2)
UserQueries == SubSeq(Queries, 1, 2)
GivenLists == SubSeq(IngredientLists, 1, 2)
FormatterAnswers == SubSeq(Answers, 1, 3)

\* the call in progress is one of f that has not returned
Pending(f) == gen_call.fn = f /\ gen_out = NoCall

\* format_with_gemini while the model is not configured (lines 849-851):
\* the local formatter, without the ingredients list
FormatWithGeminiOffline(r, q, i) ==
  /\ gen_call = NoCall
  /\ ~genai_available
  /\ gen_call' = [fn |-> "format_with_gemini",
                  raw_text |-> AssistedRecipes[r].raw_text,
                  recipe_name |-> AssistedRecipes[r].recipe_name,
                  user_query |-> q, ingredients_list |-> GivenLists[i]]
  /\ gen_out' = [doc |-> local_format_to_markdown(
                           AssistedRecipes[r].raw_text,
                           AssistedRecipes[r].recipe_name,
                           detect_language(q), <<>>)]
  /\ UNCHANGED <<genai_available, gen_tried, fallback>>
  /\ UNCHANGED <<search_vars, format_vars, root_vars, thread_vars>>

\* format_with_gemini while it is: the prompt is built (lines 853-918)
FormatWithGemini(r, q, i) ==
  /\ gen_call = NoCall
  /\ genai_available
  /\ gen_call' = [fn |-> "format_with_gemini",
                  raw_text |-> AssistedRecipes[r].raw_text,
                  recipe_name |-> AssistedRecipes[r].recipe_name,
                  user_query |-> q, ingredients_list |-> GivenLists[i]]
  /\ UNCHANGED <<genai_available, gen_tried, fallback, gen_out>>
  /\ UNCHANGED <<search_vars, format_vars, root_vars, thread_vars>>

\* the document format_with_gemini returns after an answer with "##" and
\* after the last model (lines 935 and 942)
LocalDocumentOfCall ==
  [doc |-> local_format_to_markdown(gen_call.raw_text, gen_call.recipe_name,
                                    detect_language(gen_call.user_query),
                                    gen_call.ingredients_list)]

\* one turn of its loop (lines 923-938): the next model raises, or answers;
\* an answer that holds "##" ends the call
FormatterAttempt(a) ==
  /\ Pending("format_with_gemini")
  /\ Len(gen_tried) < Len(FormatterModels)
  /\ gen_tried' = Append(gen_tried,
                         [model |-> FormatterModels[Len(gen_tried) + 1],
                          answer |-> a])
  /\ gen_out' = IF ~FormatterAnswers[a].raises
                   /\ Contains(Strip(FormatterAnswers[a].text), "##")
                THEN LocalDocumentOfCall ELSE NoCall
  /\ UNCHANGED <<genai_available, gen_call, fallback>>
  /\ UNCHANGED <<search_vars, format_vars, root_vars, thread_vars>>

\* no model answered with "##": the local formatter (lines 941-942)
FormatterFallback ==
  /\ Pending("format_with_gemini")
  /\ Len(gen_tried) = Len(FormatterModels)
  /\ gen_out' = LocalDocumentOfCall
  /\ UNCHANGED <<genai_available, gen_call, gen_tried, fallback>>
  /\ UNCHANGED <<search_vars, format_vars, root_vars, thread_vars>>

\* llm_extract_structured builds its fallback, and returns it while the
\* model is not configured (lines 951-969)
LlmExtractStructured(r, target_language) ==
  /\ gen_call = NoCall
  /\ gen_call' = [fn |-> "llm_extract_structured",
                  raw_text |-> AssistedRecipes[r].raw_text,
                  recipe_name |-> AssistedRecipes[r].recipe_name,
                  target_language |-> target_language]
  /\ fallback' = LocalExtraction(AssistedRecipes[r].raw_text,
                                 AssistedRecipes[r].recipe_name)
  /\ gen_out' = IF genai_available THEN NoCall ELSE fallback'
  /\ UNCHANGED <<genai_available, gen_tried>>
  /\ UNCHANGED <<search_vars, format_vars, root_vars, thread_vars>>

\* one turn of its loop (lines 989-1071): the next model raises, or answers;
\* any answer ends the call
ExtractorAttempt(a) ==
  /\ Pending("llm_extract_structured")
  /\ Len(gen_tried) < Len(ExtractorModels)
  /\ gen_tried' = Append(gen_tried,
                         [model |-> ExtractorModels[Len(gen_tried) + 1],
                          answer |-> a])
  /\ gen_out' = IF Answers[a].raises THEN NoCall
                ELSE ExtractedFrom(Answers[a], fallback)
  /\ UNCHANGED <<genai_available, gen_call, fallback>>
  /\ UNCHANGED <<search_vars, format_vars, root_vars, thread_vars>>

\* every model raised: the fallback (line 1073)
ExtractorFallback ==
  /\ Pending("llm_extract_structured")
  /\ Len(gen_tried) = Len(ExtractorModels)
  /\ gen_out' = fallback
  /\ UNCHANGED <<genai_available, gen_call, gen_tried, fallback>>
  /\ UNCHANGED <<search_vars, format_vars, root_vars, thread_vars>>

\* the caller has the result
AssistedReturn ==
  /\ gen_out # NoCall
  /\ gen_call' = NoCall
  /\ gen_tried' = <<>>
  /\ fallback' = NoCall
  /\ gen_out' = NoCall
  /\ UNCHANGED genai_available
  /\ UNCHANGED <<search_vars, format_vars, root_vars, thread_vars>>

NextAssist ==
  \/ \E r \in 1..Len(AssistedRecipes), q \in Range(UserQueries),
        i \in 1..Len(GivenLists) :
       FormatWithGeminiOffline(r, q, i)
  \/ \E r \in 1..Len(AssistedRecipes), q \in Range(UserQueries),
        i \in 1..Len(GivenLists) :
       FormatWithGemini(r, q, i)
  \/ \E a \in 1..Len(FormatterAnswers) : FormatterAttempt(a)
  \/ FormatterFallback
  \/ \E r \in 1..Len(AssistedRecipes), language \in Range(Languages) :
       LlmExtractStructured(r, language)
  \/ \E a \in 1..Len(Answers) : ExtractorAttempt(a)
  \/ ExtractorFallback
  \/ AssistedReturn

SpecAssist == Init /\ [][NextAssist]_vars

\* ------------------------------------------------------------------------
\* The search request of src/rag_core.py
\* ------------------------------------------------------------------------
\* the state after the import of src/rag_core.py: its generative model is
\* configured or it is None (src/rag_core.py lines 19-23)
RootInit ==
  /\ Quiet
  /\ genai_available = FALSE
  /\ model_gemini \in BOOLEAN

\* a test that sends the two best points to the generative model
UsesGeminiTopTwo(i) == i <= 1

\* the test `if i == 0` of the loop (src/rag_core.py line 95)
UsesGemini(i) == i = 0

\* the entry the except clause returns (src/rag_core.py lines 108-111)
RootErrorEntry(kind, message) == [error |-> kind \o ": " \o message]

\* point.payload.get("text", "").strip() raises: the point has no payload,
\* or its text is None (src/rag_core.py line 92)
RootRaises(point) ==
  \/ ~point.has_payload
  \/ Get(point.payload, "text", StrVal("")).t # "str"

\* the entry of one hit (src/rag_core.py lines 92-104)
RootHit(point, final_text) ==
  [score |-> point.score,
   text |-> final_text,
   recipe_name |-> Get(point.payload, "recipe_name", StrVal("Resep"))]

\* raw, the stripped text of a point (src/rag_core.py line 92)
RawOf(point) == Strip(Get(point.payload, "text", StrVal("")).v)

\* a caller invokes search_recipes(query, k)
RootRequest(k) ==
  /\ root_pc = "idle"
  /\ root_pc' = "search"
  /\ root_top_k' = k
  /\ root_points' = <<>>
  /\ root_hits' = <<>>
  /\ root_result' = <<>>
  /\ generated' = <<>>
  /\ root_got' = "none"
  /\ UNCHANGED <<model_gemini, root_client>>
  /\ UNCHANGED <<search_vars, format_vars, assist_vars, thread_vars>>

\* what get_client() returns and leaves in the global when it does not
\* raise: the cached client as it is, or a new one that passed the check
\* (src/rag_core.py lines 37-50)
GetClient(client) == IF client = "none" THEN "checked" ELSE client

\* the query is embedded, get_client returns and the vector store answers
\* with the r-th ranking, cut to the limit (src/rag_core.py lines 81-88)
RootSearch(r) ==
  /\ root_pc = "search"
  /\ root_client' = GetClient(root_client)
  /\ root_got' = root_client'
  /\ root_points' = SubSeq(Rankings[r], 1,
                           IF Len(Rankings[r]) < root_top_k
                           THEN Len(Rankings[r]) ELSE root_top_k)
  /\ root_pc' = "loop"
  /\ UNCHANGED <<model_gemini, root_top_k, root_hits, root_result, generated>>
  /\ UNCHANGED <<search_vars, format_vars, assist_vars, thread_vars>>

\* embed_text raises before get_client is called, or query_points raises
\* after get_client has returned
RootSearchRaises ==
  /\ root_pc = "search"
  /\ \E called \in BOOLEAN :
       /\ root_client' = IF called THEN GetClient(root_client) ELSE root_client
       /\ root_got' = IF called THEN root_client' ELSE root_got
  /\ root_result' = <<RootErrorEntry("ConnectionError", StoreError)>>
  /\ root_pc' = "done"
  /\ UNCHANGED <<model_gemini, root_top_k, root_points, root_hits, generated>>
  /\ UNCHANGED <<search_vars, format_vars, assist_vars, thread_vars>>

\* get_client constructs a client and get_collections() raises on it:
\* the client was assigned to the global before the check and stays there,
\* get_client raises and the except clause of the request returns
\* (src/rag_core.py lines 41-48 and 108-111)
RootConnectFails ==
  /\ root_pc = "search"
  /\ root_client = "none"
  /\ root_client' = "unchecked"
  /\ root_got' = "none"
  /\ root_result' = <<RootErrorEntry("ConnectionError", StoreError)>>
  /\ root_pc' = "done"
  /\ UNCHANGED <<model_gemini, root_top_k, root_points, root_hits, generated>>
  /\ UNCHANGED <<search_vars, format_vars, assist_vars, thread_vars>>

\* one turn of the loop that calls format_with_gemini while the model is
\* configured: generate_content answers, or it raises and the raw text is
\* kept (src/rag_core.py lines 95-96 and 55-76)
RootFormatWithGemini(a) ==
  /\ root_pc = "loop"
  /\ Len(root_hits) < Len(root_points)
  /\ ~RootRaises(root_points[Len(root_hits) + 1])
  /\ UsesGemini(Len(root_hits))
  /\ model_gemini
  /\ generated' = Append(generated, Len(root_hits))
  /\ root_hits' =
       Append(root_hits,
              RootHit(root_points[Len(root_hits) + 1],
                      IF FormatterAnswers[a].raises
                      THEN RawOf(root_points[Len(root_hits) + 1])
                      ELSE FormatterAnswers[a].text))
  /\ UNCHANGED <<model_gemini, root_pc, root_top_k, root_points, root_result>>
  /\ UNCHANGED <<root_client, root_got>>
  /\ UNCHANGED <<search_vars, format_vars, assist_vars, thread_vars>>

\* one turn of the loop that keeps the raw text: a point after the first
\* one, or the model is not configured (src/rag_core.py lines 56-57, 97-98)
RootKeepRaw ==
  /\ root_pc = "loop"
  /\ Len(root_hits) < Len(root_points)
  /\ ~RootRaises(root_points[Len(root_hits) + 1])
  /\ ~(UsesGemini(Len(root_hits)) /\ model_gemini)
  /\ root_hits' =
       Append(root_hits,
              RootHit(root_points[Len(root_hits) + 1],
                      RawOf(root_points[Len(root_hits) + 1])))
  /\ UNCHANGED <<model_gemini, root_pc, root_top_k, root_points, root_result,
                 generated>>
  /\ UNCHANGED <<root_client, root_got>>
  /\ UNCHANGED <<search_vars, format_vars, assist_vars, thread_vars>>

\* the next point has no text to strip: the except clause returns
RootHitRaises ==
  /\ root_pc = "loop"
  /\ Len(root_hits) < Len(root_points)
  /\ RootRaises(root_points[Len(root_hits) + 1])
  /\ root_result' = <<RootErrorEntry("AttributeError", FormatError)>>
  /\ root_pc' = "done"
  /\ UNCHANGED <<model_gemini, root_top_k, root_points, root_hits, generated>>
  /\ UNCHANGED <<root_client, root_got>>
  /\ UNCHANGED <<search_vars, format_vars, assist_vars, thread_vars>>

\* every point has its entry (src/rag_core.py line 106)
RootReturn ==
  /\ root_pc = "loop"
  /\ Len(root_hits) = Len(root_points)
  /\ root_result' = root_hits
  /\ root_pc' = "done"
  /\ UNCHANGED <<model_gemini, root_top_k, root_points, root_hits, generated>>
  /\ UNCHANGED <<root_client, root_got>>
  /\ UNCHANGED <<search_vars, format_vars, assist_vars, thread_vars>>

\* the caller has the result
RootFinish ==
  /\ root_pc = "done"
  /\ root_pc' = "idle"
  /\ root_top_k' = 0
  /\ root_points' = <<>>
  /\ root_hits' = <<>>
  /\ root_result' = <<>>
  /\ generated' = <<>>
  /\ root_got' = "none"
  /\ UNCHANGED <<model_gemini, root_client>>
  /\ UNCHANGED <<search_vars, format_vars, assist_vars, thread_vars>>

NextRoot ==
  \/ \E k \in 1..MaxTopK : RootRequest(k)
  \/ \E r \in 1..Len(Rankings) : RootSearch(r)
  \/ RootSearchRaises
  \/ RootConnectFails
  \/ \E a \in 1..Len(FormatterAnswers) : RootFormatWithGemini(a)
  \/ RootKeepRaw
  \/ RootHitRaises
  \/ RootReturn
  \/ RootFinish

SpecRoot == RootInit /\ [][NextRoot]_vars

\* ------------------------------------------------------------------------
\* The worker threads of the service (src/backend/main.py, get_model and
\* get_client of src/backend/rag_core.py)
\* ------------------------------------------------------------------------
\* the global that the function a worker is in reads and writes
GlobalOf(t) == IF worker[t].fn = "get_model" THEN "model" ELSE "client"

\* /ask hands search_recipes to a worker thread (src/backend/main.py line
\* 39), which calls embed_text and so get_model (lines 1082 and 114-115)
Ask(t) ==
  /\ worker[t].pc = "idle"
  /\ worker' = [worker EXCEPT ![t].fn = "get_model", ![t].pc = "test"]
  /\ UNCHANGED <<shared, built>>
  /\ UNCHANGED <<search_vars, format_vars, assist_vars, root_vars>>

\* the test `if _model is None` (line 103) or `if _client is None`
\* (line 110)
TestGlobal(t) ==
  /\ worker[t].pc = "test"
  /\ worker' = [worker EXCEPT ![t].pc = IF shared[GlobalOf(t)] = 0
                                        THEN "construct" ELSE "return"]
  /\ UNCHANGED <<shared, built>>
  /\ UNCHANGED <<search_vars, format_vars, assist_vars, root_vars>>

\* SentenceTransformer(EMBED_MODEL) or QdrantClient(...) builds a new
\* object (the right-hand sides of lines 105 and 111); handles are numbered
\* in the order they are built
Construct(t) ==
  /\ worker[t].pc = "construct"
  /\ built' = [built EXCEPT ![GlobalOf(t)] = @ + 1]
  /\ worker' = [worker EXCEPT ![t][GlobalOf(t)] = built[GlobalOf(t)] + 1,
                              ![t].pc = "store"]
  /\ UNCHANGED shared
  /\ UNCHANGED <<search_vars, format_vars, assist_vars, root_vars>>

\* the new object is assigned to the global (lines 105 and 111)
StoreGlobal(t) ==
  /\ worker[t].pc = "store"
  /\ shared' = [shared EXCEPT ![GlobalOf(t)] = worker[t][GlobalOf(t)]]
  /\ worker' = [worker EXCEPT ![t].pc = "return"]
  /\ UNCHANGED built
  /\ UNCHANGED <<search_vars, format_vars, assist_vars, root_vars>>

\* `return _model` (line 106): the query is encoded and get_client is
\* called (line 1083); `return _client` (line 112): the store is queried
ReturnGlobal(t) ==
  /\ worker[t].pc = "return"
  /\ worker' = [worker EXCEPT
                  ![t][GlobalOf(t)] = shared[GlobalOf(t)],
                  ![t].fn = IF worker[t].fn = "get_model"
                            THEN "get_client" ELSE "none",
                  ![t].pc = IF worker[t].fn = "get_model"
                            THEN "test" ELSE "query"]
  /\ UNCHANGED <<shared, built>>
  /\ UNCHANGED <<search_vars, format_vars, assist_vars, root_vars>>

\* the request of the worker ends; the thread goes back to the pool
EndRequest(t) ==
  /\ worker[t].pc = "query"
  /\ worker' = [worker EXCEPT ![t] = IdleWorker]
  /\ UNCHANGED <<shared, built>>
  /\ UNCHANGED <<search_vars, format_vars, assist_vars, root_vars>>

NextThreads ==
  \/ \E t \in Threads : Ask(t)
  \/ \E t \in Threads : TestGlobal(t)
  \/ \E t \in Threads : Construct(t)
  \/ \E t \in Threads : StoreGlobal(t)
  \/ \E t \in Threads : ReturnGlobal(t)
  \/ \E t \in Threads : EndRequest(t)

SpecThreads == Init /\ [][NextThreads]_vars

\* ------------------------------------------------------------------------
\* Properties of the search request
\* ------------------------------------------------------------------------
\* the locale of the request
Language == detect_language(query)

\* the request has returned, and how: the store answered with no point
\* (EMPTY), with a best score under 0.30 (WEAK), or with one that is not (OK);
\* 30 is 0.30 in hundredths
Returned == pc = "done" /\ ~error.caught
ReturnedEmpty == Returned /\ Len(points) = 0
ReturnedWeak == Returned /\ Len(points) > 0 /\ points[1].score < 30
ReturnedOk == Returned /\ Len(points) > 0 /\ points[1].score >= 30
Failed == pc = "done" /\ error.caught

\* C3: when the search returns at least one point, the request is OK (every
\* point is returned as a hit with not_found false) if the first score is
\* 0.30 or higher, and WEAK (one not_found entry) if it is lower, whatever
\* the query and the limit of the request are
C3_ThresholdBoundary ==
  (Returned /\ Len(points) > 0) =>
    IF points[1].score >= 30
    THEN /\ Len(result) = Len(points)
         /\ \A k \in 1..Len(result) : result[k].not_found = FALSE
    ELSE /\ Len(result) = 1
         /\ result[1].not_found = TRUE

\* a request whose best score is exactly 0.30 has returned its hits
C3_Witness ==
  /\ ReturnedOk
  /\ points[1].score = 30
  /\ Len(result) = 2
  /\ result[1].not_found = FALSE

\* C4: when the search returns no point, the result is one entry with
\* not_found true and score 0.0, named and worded in the locale of the
\* query, and the formatter is not called
C4_EmptyOutcome ==
  ReturnedEmpty =>
    /\ Len(result) = 1
    /\ result[1].not_found = TRUE
    /\ result[1].score = 0
    /\ result[1].recipe_name =
         (IF Language = "indonesian" THEN "Tidak Ditemukan" ELSE "Not Found")
    /\ StartsWith(result[1].text,
                  IF Language = "indonesian"
                  THEN "## Maaf, Resep Tidak Ditemukan"
                  ELSE "## Sorry, Recipe Not Found")
    /\ "format" \notin Range(calls)

\* an Indonesian query has returned from an empty search
C4_Witness ==
  /\ ReturnedEmpty
  /\ Language = "indonesian"
  /\ result[1].recipe_name = "Tidak Ditemukan"
  /\ calls = <<"embed", "query">>

\* C5: when the best score is under 0.30, the result is one entry with
\* not_found true, in the locale of the query, whose score is the best score
\* of the store, and no point is formatted
C5_WeakOutcome ==
  ReturnedWeak =>
    /\ Len(result) = 1
    /\ result[1].not_found = TRUE
    /\ result[1].recipe_name =
         (IF Language = "indonesian" THEN "Tidak Relevan" ELSE "Not Relevant")
    /\ StartsWith(result[1].text,
                  IF Language = "indonesian"
                  THEN "## Hmm, Tidak Ada yang Cocok"
                  ELSE "## Hmm, No Match Found")
    /\ result[1].score = points[1].score
    /\ \A k \in 1..Len(points) : points[k].score <= result[1].score
    /\ "format" \notin Range(calls)

\* a request with two points, the best at 0.25, has returned WEAK
C5_Witness ==
  /\ ReturnedWeak
  /\ Len(points) = 2
  /\ result[1].score = 25
  /\ result[1].not_found = TRUE

\* str(x) of a score x held in hundredths h, 0.0 to 1.0: 25 is "0.25", 30 is
\* "0.3", 100 is "1.0"
ScoreStr(h) ==
  IntStr(h \div 100) \o "."
  \o (IF h % 10 = 0 THEN IntStr((h % 100) \div 10)
      ELSE IntStr((h % 100) \div 10) \o IntStr(h % 10))

\* C6 as the specification states it: on the WEAK path the text of the
\* message holds the best score as a literal (0.25 gives "0.25")
C6_TextHoldsScore ==
  ReturnedWeak => Contains(result[1].text, ScoreStr(points[1].score))

\* C6 as the code has it: on the WEAK path the text of the message quotes
\* the query; the best score is in the score field of the entry, and is in
\* the text only where the query itself holds it
C6_TextQuotesQuery ==
  ReturnedWeak =>
    /\ Contains(result[1].text, "**'" \o query \o "'**")
    /\ result[1].score = points[1].score
    /\ Contains(result[1].text, ScoreStr(points[1].score))
         => Contains(query, ScoreStr(points[1].score))

\* an English query with a best score of 0.25 has returned WEAK
C6_Witness ==
  /\ ReturnedWeak
  /\ points[1].score = 25
  /\ Language = "english"
  /\ Contains(result[1].text, "**'apple pie'**")

\* the recipe name of a stored point, as the loop reads it (lines 1168-1169)
NameOf(point) == Get(PayloadOf(point), "recipe_name", StrVal("Tanpa Judul")).v

\* C7: on the OK path the result has one entry for each point of the store,
\* in the order of the store, with the name and the score of that point and
\* not_found false
C7_OkOutcome ==
  ReturnedOk =>
    /\ Len(result) = Len(points)
    /\ \A k \in 1..Len(points) :
         /\ result[k].recipe_name = NameOf(points[k])
         /\ result[k].score = points[k].score
         /\ result[k].not_found = FALSE

\* a request has returned two hits, the second with a score under 0.30
C7_Witness ==
  /\ ReturnedOk
  /\ Len(result) = 2
  /\ result[1].recipe_name = "Apple Pie"
  /\ result[2].recipe_name = "Tanpa Judul"
  /\ result[2].score < 30

\* C8: when the embedding, the store or the formatter raises, the result is
\* one entry with an error field and no not_found field, named and worded in
\* the locale of the query, and no hit formatted before is returned
C8_UpstreamFailure ==
  Failed =>
    /\ Len(result) = 1
    /\ "error" \in DOMAIN result[1]
    /\ "not_found" \notin DOMAIN result[1]
    /\ result[1].error = error.message
    /\ result[1].recipe_name =
         (IF Language = "indonesian" THEN "Kesalahan" ELSE "Error")
    /\ Contains(result[1].text,
                IF Language = "indonesian"
                THEN "Silakan coba lagi atau hubungi admin."
                ELSE "Please try again or contact admin.")
    /\ \A k \in 1..Len(hits) : hits[k] \notin Range(result)

\* the formatter has raised on the second point, after the first was
\* formatted
C8_Witness ==
  /\ Failed
  /\ Len(hits) = 1
  /\ calls = <<"embed", "query", "format", "format">>
  /\ "error" \in DOMAIN result[1]

\* an entry of the result is well formed: a name, a text and a score, with
\* either the not_found flag or the error
WellFormed(entry) ==
  /\ {"recipe_name", "text", "score"} \subseteq DOMAIN entry
  /\ Len(entry.recipe_name) >= 0
  /\ Len(entry.text) > 0
  /\ entry.score \in 0..100
  /\ \/ "not_found" \in DOMAIN entry /\ entry.not_found \in BOOLEAN
     \/ "error" \in DOMAIN entry /\ Len(entry.error) >= 0

\* C9: no exception leaves search_recipes: an exception raised by a
\* collaborator is caught and the request returns, and a request that has
\* returned, on any path, has returned a list of at least one well-formed
\* entry
C9_NeverPropagates ==
  /\ error.caught => pc = "done"
  /\ pc = "done" =>
       /\ Len(result) >= 1
       /\ \A k \in 1..Len(result) : WellFormed(result[k])

\* the embedding has raised and the request has returned its error entry
C9_Witness ==
  /\ Failed
  /\ calls = <<"embed">>
  /\ Len(result) = 1
  /\ WellFormed(result[1])

\* the query holds the word w at position i, in any case
HoldsAt(q, w, i) ==
  /\ i + Len(w) - 1 <= Len(q)
  /\ LowerStr(SubSeq(q, i, i + Len(w) - 1)) = w

\* the marker words of the secondary test, which must stand as whole words
SecondaryMarkers ==
  {"apa", "tolong", "tolonglah", "silakan", "saya", "kamu", "kue", "nasi",
   "goreng"}

\* the query holds a marker word anywhere in it, or a secondary marker as a
\* whole word
Marked(q) ==
  \/ \E w \in indonesian_keywords : \E i \in 1..Len(q) : HoldsAt(q, w, i)
  \/ \E w \in SecondaryMarkers : \E i \in 1..Len(q) :
       /\ HoldsAt(q, w, i)
       /\ ~IsWordAt(q, i - 1)
       /\ ~IsWordAt(q, i + Len(w))

\* the language an entry of the EMPTY, WEAK and error outcomes is named in
EntryLanguage(entry) ==
  IF entry.recipe_name \in {"Tidak Ditemukan", "Tidak Relevan", "Kesalahan"}
  THEN "indonesian" ELSE "english"

\* C16: detect_language depends on the query alone: whatever else the
\* process holds, it is indonesian exactly when the lowercased query holds
\* a marker word or matches the secondary marker words, and english
\* otherwise; "resep kue coklat" is indonesian
C16_DetectLanguage ==
  /\ detect_language("resep kue coklat") = "indonesian"
  /\ pc # "idle" =>
       Language = (IF Marked(query) THEN "indonesian" ELSE "english")
  /\ (ReturnedEmpty \/ ReturnedWeak \/ Failed) =>
       EntryLanguage(result[1])
         = (IF Marked(query) THEN "indonesian" ELSE "english")

\* a request returned an entry in the language of a query that holds a
\* marker word inside another word
C16_Witness ==
  /\ ReturnedEmpty
  /\ query = "Danish pastry"
  /\ result[1].recipe_name = "Tidak Ditemukan"

\* the calls of a request that formats n points: the embedding, the
\* nearest-neighbour search, then n calls of the formatter
CallsFor(n) == <<"embed", "query">> \o [k \in 1..n |-> "format"]

\* how many formatter calls the request has made
FormatCalls == Cardinality({k \in 1..Len(calls) : calls[k] = "format"})

\* C21 (per-request call ordering): the calls of a request are, in this
\* order, one embedding call, at most one nearest-neighbour call (none when
\* the embedding raised), then one formatter call per point in rank order,
\* each after the one before has returned; no formatter call is made
\* before the search has returned, and none on EMPTY and WEAK requests
C21_CallOrdering ==
  /\ StartsWith(CallsFor(Len(points)), calls)
  /\ pc \in {"query", "gate", "format", "done"} => calls[1] = "embed"
  /\ pc \in {"gate", "format"} => SubSeq(calls, 1, 2) = <<"embed", "query">>
  /\ (Failed /\ error.message = EmbedError) => calls = <<"embed">>
  /\ pc \in {"idle", "embed", "query", "gate"} => FormatCalls = 0
  /\ (ReturnedEmpty \/ ReturnedWeak) => calls = <<"embed", "query">>
  /\ ReturnedOk => calls = CallsFor(Len(points))
  /\ FormatCalls \in {Len(hits), Len(hits) + 1}
  /\ FormatCalls = Len(hits) + 1 => (Failed /\ error.message = FormatError)
  /\ \A k \in 1..Len(hits) :
       /\ hits[k].recipe_name = NameOf(points[k])
       /\ hits[k].score = points[k].score

\* a request has formatted its three points one after the other and
\* returned them
C21_Witness ==
  /\ ReturnedOk
  /\ Len(points) = 3
  /\ calls = <<"embed", "query", "format", "format", "format">>
  /\ Len(result) = 3

\* the entry is a formatted hit; it is a notice when it says not_found or
\* carries an error
IsHit(entry) == "not_found" \in DOMAIN entry /\ entry.not_found = FALSE
IsNotice(entry) ==
  \/ "error" \in DOMAIN entry
  \/ "not_found" \in DOMAIN entry /\ entry.not_found = TRUE

\* C30 (the gate looks at the first point only): when the first point
\* scores 0.30 or more and no collaborator raises, every point the store
\* returned is formatted and returned with not_found false, also a
\* lower-ranked point whose own score is under 0.30; and no result holds
\* a not_found or error entry next to a formatted hit
C30_GateOnFirstPoint ==
  /\ ReturnedOk =>
       /\ Len(result) = Len(points)
       /\ \A k \in 1..Len(points) :
            /\ IsHit(result[k])
            /\ result[k].score = points[k].score
            /\ result[k].text
                 = format_recipe_output(PayloadOf(points[k]), Language)
  /\ pc = "done" =>
       \/ \A k \in 1..Len(result) : IsHit(result[k])
       \/ Len(result) = 1 /\ IsNotice(result[1])

\* a request whose first point scores 0.30 has returned its second point,
\* which scores 0.12, as a formatted hit
C30_Witness ==
  /\ ReturnedOk
  /\ Len(points) = 2
  /\ points[1].score >= SCORE_THRESHOLD
  /\ points[2].score < SCORE_THRESHOLD
  /\ IsHit(result[2])
  /\ StartsWith(result[2].text, "# Tanpa Judul")

\* ------------------------------------------------------------------------
\* Properties of the formatted documents
\* ------------------------------------------------------------------------
\* a formatter call has returned a document
Formatted == fmt_call # NoCall /\ ~fmt_out.raised

\* the lines of a document
DocLines(doc) == Split(doc, "\n")

\* what a section heading starts with: "## " in the documents of
\* format_recipe_output (the title is "# name"), "### " in those of
\* local_format_to_markdown (the title is "## name")
HeadingMark(fn) == IF fn = "format_recipe_output" THEN "## " ELSE "### "

\* the section headings of a document, in order
Headings(doc, mark) ==
  Then(DocLines(doc), LAMBDA lines :
    FilterSeq(lines, LAMBDA line : StartsWith(line, mark)))

\* the lines under the n-th heading, blank lines left out
SectionLines(doc, mark, n) ==
  Then(DocLines(doc), LAMBDA lines :
    KeepIdx(lines,
            LAMBDA k : /\ lines[k] # ""
                       /\ ~StartsWith(lines[k], mark)
                       /\ Cardinality({j \in 1..k : StartsWith(lines[j], mark)}) = n,
            1, Len(lines)))

\* a line without its list marker, "- " or "1. "
EntryText(line) ==
  LET i == FirstIdx(LAMBDA k : At(line, k) \notin Digit, 1, Len(line))
  IN IF StartsWith(line, "- ") THEN From(line, 3)
     ELSE IF i > 1 /\ SubSeq(line, i, i + 1) = ". " THEN From(line, i + 2)
     ELSE line

\* the entries listed under the n-th heading
Entries(doc, mark, n) ==
  Then(SectionLines(doc, mark, n), LAMBDA lines : MapSeq(lines, EntryText))

RECURSIVE Bare(_)
\* a line without any list marker at its start
Bare(line) == IF EntryText(line) = line THEN line ELSE Bare(EntryText(line))

\* the lines a list of entities takes when it is written out, blank lines
\* left out (an entity may run over several lines), without list markers
EntityLines(entities) ==
  Then(DocLines(Join(entities, "\n")), LAMBDA lines :
    MapSeq(FilterSeq(lines, LAMBDA line : line # ""), Bare))

\* the entries of the three sections of the document returned
IngredientEntries == Entries(fmt_out.doc, HeadingMark(fmt_call.fn), 1)
InstructionEntries == Entries(fmt_out.doc, HeadingMark(fmt_call.fn), 2)
NutritionEntries == Entries(fmt_out.doc, HeadingMark(fmt_call.fn), 3)

\* C1 (no-bleed): in every document of format_recipe_output and of
\* local_format_to_markdown, no entry under Instructions equals, ignoring
\* case, an entry under Ingredients
C1_NoBleed ==
  Formatted =>
    \A a \in Range(IngredientEntries), b \in Range(InstructionEntries) :
      LowerStr(a) # LowerStr(b)

\* the headings the two formatters write, by language
SectionHeadings(fn, language) ==
  IF fn = "format_recipe_output"
  THEN <<"## Ingredients", "## Instruction", "## Nutrition">>
  ELSE <<LocalLabels(language).ingredients,
         From(LocalLabels(language).instructions, 2),
         From(LocalLabels(language).nutrition, 2)>>

\* the placeholder lines of the two formatters, by language
PlaceholderLines(fn, language) ==
  IF fn = "format_recipe_output"
  THEN {MainPlaceholders(language).ingredients,
        MainPlaceholders(language).instruction,
        MainPlaceholders(language).nutrition}
  ELSE {LocalLabels(language).no_ingredients,
        LocalLabels(language).no_nutrition}

\* what the call extracted for its three sections
Extracted ==
  IF fmt_call.fn = "format_recipe_output"
  THEN <<fmt_out.parts.ingredients, fmt_out.parts.instruction_list,
         fmt_out.parts.nutrition_list>>
  ELSE <<fmt_out.parts.ingredients, fmt_out.parts.steps,
         fmt_out.parts.nutrition_info>>

\* the n-th section lists what was extracted for it, or holds one
\* placeholder line when nothing was
SectionHolds(n) ==
  IF Len(Extracted[n]) > 0
  THEN MapSeq(SectionLines(fmt_out.doc, HeadingMark(fmt_call.fn), n), Bare)
         = EntityLines(Extracted[n])
  ELSE \E line \in PlaceholderLines(fmt_call.fn, fmt_call.language) :
         SectionLines(fmt_out.doc, HeadingMark(fmt_call.fn), n) = <<line>>

\* C2: every document has exactly the three sections Ingredients,
\* Instructions, Nutrition in this order, and each section lists the
\* entities extracted for it or, when none was extracted, holds exactly one
\* placeholder line (never the raw text)
C2_ThreeSections ==
  Formatted =>
    /\ Headings(fmt_out.doc, HeadingMark(fmt_call.fn))
         = SectionHeadings(fmt_call.fn, fmt_call.language)
    /\ \A n \in 1..3 : SectionHolds(n)

\* a call of local_format_to_markdown has returned
LocalFormatted == Formatted /\ fmt_call.fn = "local_format_to_markdown"

\* C13 (normalizer idempotence): cleaning the cleaned text again, with the
\* same title, changes nothing; and the empty text is cleaned to the empty
\* text
C13_NormalizerIdempotent ==
  LocalFormatted =>
    /\ clean_garbage_text(fmt_out.parts.text, fmt_call.recipe_name)
         = fmt_out.parts.text
    /\ fmt_call.raw_text = "" => fmt_out.parts.text = ""

\* the text clean_garbage_text splits into lines: the input without
\* the title, the section label and the credit (lines 146-157)
TextBeforeLines(text, title) ==
  Then(Strip(text), LAMBDA c0 :
  Then(IF StartsWith(LowerStr(c0), LowerStr(title))
       THEN StripCh(From(c0, Len(title) + 1), {" ", ".", ":", "-"})
       ELSE c0, LAMBDA c1 :
  Then(Strip(CutSectionLabel(c1)), LAMBDA c2 :
    Strip(CutCreditTail(c2)))))

\* the key of a line: the line in lower case without a leading
\* enumeration marker
LineKey(line) == StripNumbering(LowerStr(line))

\* the lines of a text, none for the empty text
LinesOf(text) == IF text = "" THEN <<>> ELSE Split(text, "\n")

\* C22 (line deduplication): the lines of the text clean_garbage_text
\* returns are the stripped non-empty input lines, as written and in their
\* order, that no earlier input line shares its key with; so no two lines
\* of the output have the same key
C22_LineDeduplication ==
  LocalFormatted =>
    LET lines == StrippedLines(TextBeforeLines(fmt_call.raw_text,
                                               fmt_call.recipe_name))
        keys == MapSeq(lines, LineKey)
        out == LinesOf(fmt_out.parts.text)
    IN /\ out = KeepIdx(lines,
                        LAMBDA i : \A j \in 1..(i - 1) : keys[j] # keys[i],
                        1, Len(lines))
       /\ \A a, b \in 1..Len(out) :
            LineKey(out[a]) = LineKey(out[b]) => a = b

\* a text with three lines of one key and two of another was cleaned: the
\* first line of each key is left, with its enumeration marker
C22_Witness ==
  /\ LocalFormatted
  /\ fmt_call.recipe_name = "Dough"
  /\ Len(StrippedLines(fmt_call.raw_text)) = 6
  /\ LinesOf(fmt_out.parts.text)
       = <<"1. Mix flour and water well.", "2) Knead the dough gently.",
           "Let the dough rest.">>

\* C14 (core-name uniqueness): no two distinct entries of a list that
\* extract_ingredients_from_text returned have the same core name
C14_CoreNameUnique ==
  (LocalFormatted /\ fmt_call.ingredients_list = <<>>) =>
    \A a, b \in Range(fmt_out.parts.ingredients) :
      a # b => core_name(a) # core_name(b)

\* the candidate phrases the consolidation loop of
\* extract_ingredients_from_text takes from a text, in the order it sees
\* them (lines 366-387)
Candidates(text) ==
  FilterSeq(MapSeq(cleaned_ingredients(text), Consolidable),
            LAMBDA c : c # "")

\* C23 (consolidation preference): of the candidate phrases with one core
\* name extract_ingredients_from_text keeps one with an explicit quantity
\* (a digit) when there is one, and else a longest one; and its output
\* holds the core names in the order they were first seen
C23_ConsolidationPreference ==
  (LocalFormatted /\ fmt_call.ingredients_list = <<>>) =>
    LET cands == Candidates(fmt_out.parts.text)
        out == fmt_out.parts.ingredients
    IN Len(cands) > 0 =>
         /\ MapSeq(out, core_name) = Uniq(MapSeq(cands, core_name))
         /\ \A k \in 1..Len(out) :
              LET group == {c \in Range(cands) :
                              core_name(c) = core_name(out[k])}
              IN /\ out[k] \in group
                 /\ IF \E c \in group : HasDigit(c)
                    THEN HasDigit(out[k])
                    ELSE \A c \in group : Len(c) <= Len(out[k])

\* the phrase names kitchen tools and no pantry ingredient (lines 383-387)
OnlyTools(phrase) ==
  /\ MentionsTool(phrase)
  /\ ~\E p \in pantry : Contains(LowerStr(phrase), p)

\* C24 (ingredient filtering): no phrase extract_ingredients_from_text
\* returns, on either of its return paths, matches the nutrition-hint or
\* the time/temperature pattern, names only kitchen tools, starts with a
\* cooking verb or has fewer than 3 letters, and none is a candidate that
\* the post-processing filter of lines 366-387 rejects
C24_IngredientFiltering ==
  (LocalFormatted /\ fmt_call.ingredients_list = <<>>) =>
    \A k \in 1..Len(fmt_out.parts.ingredients) :
      LET phrase == fmt_out.parts.ingredients[k]
      IN /\ ~SearchI(NUTRITION_HINTS, phrase)
         /\ ~SearchI(TIME_TEMPERATURE_PATTERN, phrase)
         /\ ~OnlyTools(phrase)
         /\ ~MatchI(VERB_PHRASES, phrase)
         /\ AlphaCount(phrase) >= 3
         /\ Consolidable(phrase) # ""

\* the call built its instruction list from a raw text: every call of
\* local_format_to_markdown, and a call of format_recipe_output that
\* turned to extract_steps; with the list, the cleaned text it was taken
\* from, and the number of words up to which a sentence is short
StepsExtracted ==
  Formatted /\ (fmt_call.fn = "format_recipe_output"
                  => StepsFromText(fmt_call.payload))
ExtractedSteps ==
  IF fmt_call.fn = "format_recipe_output"
  THEN fmt_out.parts.instruction_list ELSE fmt_out.parts.steps
StepSource ==
  IF fmt_call.fn = "format_recipe_output"
  THEN clean_garbage_text(Get(fmt_call.payload, "text", StrVal("")).v,
                          Get(fmt_call.payload, "recipe_name",
                              StrVal("Tanpa Judul")).v)
  ELSE fmt_out.parts.text
ShortLimit == IF fmt_call.fn = "format_recipe_output" THEN 6 ELSE 8

\* where the sentence first stands in the text at or after position from;
\* past the end of the text when it does not
PlaceOf(sentence, text, from) ==
  Then(FirstIdx(LAMBDA k : SubSeq(text, k, k + Len(sentence) - 1) = sentence,
                from, Len(text) - Len(sentence) + 1), LAMBDA place :
    IF place > Len(text) - Len(sentence) + 1 THEN Len(text) + 1 ELSE place)

RECURSIVE InOrder(_, _, _, _)
\* the pieces from the n-th on stand in the text one after the other, the
\* n-th at or after position from
InOrder(sentences, text, n, from) ==
  IF n > Len(sentences) THEN TRUE
  ELSE Then(PlaceOf(sentences[n], text, from), LAMBDA place :
         /\ place <= Len(text)
         /\ InOrder(sentences, text, n + 1, place + Len(sentences[n])))

\* C25 (step extraction): the instruction list extract_steps and the step
\* loop of local_format_to_markdown build holds its sentences, line by
\* line, in the order of the text, no two of them equal when case is ignored, none that
\* matches the nutrition-hint pattern and none that is short and holds a
\* measurement unit
C25_StepExtraction ==
  StepsExtracted =>
    LET steps == ExtractedSteps
    IN /\ InOrder(Flatten(MapSeq(steps, StrippedLines), 1), StepSource, 1, 1)
       /\ \A a, b \in 1..Len(steps) :
            LowerStr(steps[a]) = LowerStr(steps[b]) => a = b
       /\ \A k \in 1..Len(steps) :
            /\ ~SearchI(NUTRITION_HINTS, steps[k])
            /\ ~(Len(SplitWs(steps[k])) <= ShortLimit
                  /\ SearchI(UNIT_PATTERN, steps[k]))

\* the other of the two languages
Other(language) == IF language = "indonesian" THEN "english" ELSE "indonesian"

\* the phrases of each language that the headers, placeholders and default
\* strings of the two formatters are written in
LocalePhrases(language) ==
  IF language = "english"
  THEN {"Ingredients", "Instruction", "Nutrition", "Not available",
        "not available", "not detected", "not auto-detected"}
  ELSE {"Bahan", "Cara Memasak", "Nutrisi", "Tidak tersedia",
        "tidak tersedia", "tidak terdeteksi", "Tanpa Judul"}

\* the placeholder lines of both formatters in both languages
AnyPlaceholder ==
  UNION {PlaceholderLines(fn, language) :
           fn \in {"format_recipe_output", "local_format_to_markdown"},
           language \in Range(Languages)}

\* the title of the document is the default string, not a recipe name
DefaultTitle ==
  /\ fmt_call.fn = "format_recipe_output"
  /\ "recipe_name" \notin DOMAIN fmt_call.payload

\* the lines of the document that the formatter writes in its own words:
\* section headers, placeholders, and the default title
FixedLines ==
  {line \in Range(DocLines(fmt_out.doc)) :
     \/ StartsWith(line, HeadingMark(fmt_call.fn))
     \/ line \in AnyPlaceholder
     \/ DefaultTitle /\ StartsWith(line, "# ")}

\* C15 (locale consistency): every section header, placeholder line and
\* default string of a formatted document is in the language passed to the
\* formatter: no such line holds a phrase of the other language
C15_LocaleConsistent ==
  Formatted =>
    \A line \in FixedLines, phrase \in LocalePhrases(Other(fmt_call.language)) :
      ~Contains(line, phrase)

\* a call of format_recipe_output has returned or raised
MainCalled == fmt_call # NoCall /\ fmt_call.fn = "format_recipe_output"

\* the payload lacks the field, or holds nothing in it: the key is absent,
\* or its value is null, the empty string or the empty list
Lacks(payload, key) ==
  \/ key \notin DOMAIN payload
  \/ payload[key].t = "none"
  \/ payload[key].t = "str" /\ payload[key].v = ""
  \/ payload[key].t = "list" /\ Len(payload[key].v) = 0

\* a malformed record: one of the four fields is missing or empty
Malformed(payload) ==
  \E key \in {"recipe_name", "text", "steps", "nutrients"} :
    Lacks(payload, key)

\* C18 (malformed record): for a payload that lacks any of recipe_name,
\* text, steps and nutrients, format_recipe_output does not raise, and each
\* section without data holds its placeholder line
C18_MalformedRecord ==
  (MainCalled /\ Malformed(fmt_call.payload)) =>
    /\ ~fmt_out.raised
    /\ \A n \in 1..3 : SectionHolds(n)

\* a call of format_recipe_output has returned its document
MainReturned == MainCalled /\ ~fmt_out.raised

\* the payload carries a non-empty list under the key, or a string
HasList(payload, key) ==
  key \in DOMAIN payload /\ payload[key].t = "list"
                         /\ Len(payload[key].v) > 0
HasStr(payload, key) == key \in DOMAIN payload /\ payload[key].t = "str"

\* every entry is a piece of one of the sources
TakenFrom(entries, sources) ==
  \A k \in 1..Len(entries) :
    \E j \in 1..Len(sources) : Contains(sources[j], entries[k])

\* C19 (structured-field precedence): with a non-empty steps list every
\* instruction of format_recipe_output is a sentence of that list, and
\* the section holds the placeholder when no sentence of the list is kept;
\* with a non-empty nutrients list the Nutrition section is that list;
\* and with no such list but a steps_text or nutrients_text string the
\* section is taken from that string: the raw text supplies a section only
\* when both of its fields are absent
C19_StructuredPrecedence ==
  MainReturned =>
    LET payload == fmt_call.payload
        parts == fmt_out.parts
    IN /\ HasList(payload, "steps") =>
            /\ TakenFrom(parts.instruction_list, payload["steps"].v)
            /\ SectionHolds(2)
       /\ HasList(payload, "nutrients") =>
            /\ parts.nutrition_list = payload["nutrients"].v
            /\ SectionHolds(3)
       /\ (~HasList(payload, "steps") /\ HasStr(payload, "steps_text")) =>
            TakenFrom(parts.instruction_list, <<payload["steps_text"].v>>)
       /\ (~HasList(payload, "nutrients")
             /\ HasStr(payload, "nutrients_text")) =>
            TakenFrom(parts.nutrition_list, <<payload["nutrients_text"].v>>)

\* the record whose only step is filtered out was formatted: its
\* Instructions section is the placeholder although its raw text holds a
\* sentence, and its Nutrition section is its nutrients list
C19_Witness ==
  /\ MainReturned
  /\ fmt_call.payload = Toast
  /\ Len(extract_steps(Toast["text"].v, "Toast", <<>>)) > 0
  /\ fmt_out.parts.instruction_list = <<>>
  /\ fmt_out.parts.nutrition_list = <<"Calories: 80">>

\* ------------------------------------------------------------------------
\* Properties of the assisted path
\* ------------------------------------------------------------------------
\* the assisted call has returned after it tried the model
AssistedReturned == gen_out # NoCall /\ Len(gen_tried) >= 1

\* every answer of the call was an exception or a text that is no JSON:
\* neither the text nor a brace block of it parses
NoJsonAnswer ==
  \A k \in 1..Len(gen_tried) :
    \/ Answers[gen_tried[k].answer].raises
    \/ /\ ~Answers[gen_tried[k].answer].loads.ok
       /\ ~Answers[gen_tried[k].answer].block.ok

\* C10 (fallback guarantee): when every attempt on the generative model
\* raises or returns a text that is not JSON, format_with_gemini returns the
\* document, and llm_extract_structured the ingredients, the instructions
\* and the document, that the heuristic functions return for the same input
C10_FallbackGuarantee ==
  (AssistedReturned /\ NoJsonAnswer) =>
    IF gen_call.fn = "format_with_gemini"
    THEN gen_out.doc =
           local_format_to_markdown(gen_call.raw_text, gen_call.recipe_name,
                                    detect_language(gen_call.user_query),
                                    gen_call.ingredients_list)
    ELSE /\ gen_out.ingredients =
              extract_ingredients_from_text(gen_call.raw_text)
         /\ gen_out.instructions =
              extract_steps(gen_call.raw_text, gen_call.recipe_name, <<>>)
         /\ gen_out.text_id =
              local_format_to_markdown(gen_call.raw_text, gen_call.recipe_name,
                                       gen_call.target_language, <<>>)

\* the answer that ended the call, and the JSON object read from it: the
\* whole text, or else its brace block
LastAnswer == Answers[gen_tried[Len(gen_tried)].answer]
ObjectAnswered ==
  /\ gen_call.fn = "llm_extract_structured"
  /\ AssistedReturned
  /\ ~LastAnswer.raises
  /\ \/ LastAnswer.loads.ok /\ LastAnswer.loads.dict
     \/ LastAnswer.block.ok /\ LastAnswer.block.dict
ObjectOf(answer) ==
  IF answer.loads.ok /\ answer.loads.dict THEN answer.loads.v
  ELSE answer.block.v

\* none of the keys of the object holds a non-empty value
FieldEmpty(parsed, keys) ==
  \A key \in keys : ~Truthy(Get(parsed, key, NoneVal))

\* C11 (empty-field fallback): when the model answers with JSON whose
\* ingredients or instructions are empty or missing, llm_extract_structured
\* returns the heuristic fallback result, not the empty fields
C11_EmptyFieldFallback ==
  (/\ ObjectAnswered
   /\ \/ FieldEmpty(ObjectOf(LastAnswer), {"ingredients", "ing"})
      \/ FieldEmpty(ObjectOf(LastAnswer), {"instructions", "steps"}))
    => gen_out = fallback

\* the instruction with its white space collapsed (lines 1041-1044)
Collapsed(instruction) ==
  Strip(ReSub(Plus(In(Space)), " ", Strip(instruction)))

\* C26 (assisted-result normalization): when llm_extract_structured
\* returns what the model answered, read from the whole answer or from its
\* brace block, every ingredient it returns is in the normalized form of
\* the unit synonyms and no two are equal when case is ignored, and every
\* instruction has its white space collapsed and at least six characters
C26_AssistedNormalization ==
  ObjectAnswered =>
    /\ \A k \in 1..Len(gen_out.ingredients) :
         /\ normalize_ingredient(gen_out.ingredients[k])
              = gen_out.ingredients[k]
         /\ \A j \in 1..(k - 1) :
              LowerStr(gen_out.ingredients[j])
                # LowerStr(gen_out.ingredients[k])
    /\ \A k \in 1..Len(gen_out.instructions) :
         /\ Collapsed(gen_out.instructions[k]) = gen_out.instructions[k]
         /\ Len(gen_out.instructions[k]) >= 6

\* C27 (availability independence): format_with_gemini returns the
\* document local_format_to_markdown writes for the raw text, the name, the
\* language of the user query and the ingredients list of the call,
\* whether the generative library is unavailable, every attempt failed or
\* an attempt succeeded
C27_AvailabilityIndependent ==
  (gen_call.fn = "format_with_gemini" /\ gen_out # NoCall) =>
    gen_out.doc = local_format_to_markdown(gen_call.raw_text,
                                           gen_call.recipe_name,
                                           detect_language(gen_call.user_query),
                                           gen_call.ingredients_list)

\* llm_extract_structured has returned its heuristic fallback
FallbackReturned ==
  /\ gen_call.fn = "llm_extract_structured"
  /\ gen_out # NoCall
  /\ gen_out = fallback

\* C29 (language of the fallback document): the document that
\* llm_extract_structured returns with its fallback is written in the
\* target_language of the call: none of its section headers and
\* placeholder lines holds a phrase of the other language
C29_FallbackLanguage ==
  FallbackReturned =>
    \A line \in Range(DocLines(gen_out.text_id)) :
      (StartsWith(line, "### ") \/ line \in AnyPlaceholder) =>
        \A phrase \in LocalePhrases(Other(gen_call.target_language)) :
          ~Contains(line, phrase)

\* the candidate models of the call in progress, in the order of its list
CandidatesOf(call) ==
  IF call.fn = "format_with_gemini" THEN FormatterModels ELSE ExtractorModels

\* the attempt failed: the model raised, or its answer is unusable: for
\* format_with_gemini a text without "##", for llm_extract_structured a text
\* of which neither the whole nor a brace block is a JSON object
AttemptFailed(call, attempt) ==
  LET answer == Answers[attempt.answer]
  IN \/ answer.raises
     \/ IF call.fn = "format_with_gemini"
        THEN ~Contains(Strip(answer.text), "##")
        ELSE /\ ~(answer.loads.ok /\ answer.loads.dict)
             /\ ~(answer.block.ok /\ answer.block.dict)

\* C20 (model retry sequence): the attempts of format_with_gemini and of
\* llm_extract_structured go through the candidate models in list order,
\* at most three of them; each attempt but the last has failed; and the
\* call returns after a failed attempt only when all three models were
\* tried, so that a failed attempt is always followed by the next model
C20_ModelRetrySequence ==
  gen_call # NoCall =>
    /\ Len(gen_tried) <= 3
    /\ \A k \in 1..Len(gen_tried) :
         gen_tried[k].model = CandidatesOf(gen_call)[k]
    /\ \A k \in 1..(Len(gen_tried) - 1) :
         AttemptFailed(gen_call, gen_tried[k])
    /\ (/\ AssistedReturned
        /\ AttemptFailed(gen_call, gen_tried[Len(gen_tried)]))
         => Len(gen_tried) = Len(CandidatesOf(gen_call))

\* ------------------------------------------------------------------------
\* Properties of the search request of src/rag_core.py
\* ------------------------------------------------------------------------
\* C12 (top-hit-only assistance): within one search request the generative
\* model is called at most once, and only for the first point (i = 0);
\* every later point gets its entry without a call of the model
C12_TopHitOnly ==
  /\ Len(generated) <= 1
  /\ \A k \in 1..Len(generated) : generated[k] = 0
  /\ \A n \in 2..Len(root_hits) : root_hits[n].text = RawOf(root_points[n])

\* a request returned several hits after the model was called for the
\* first one
C12_Witness ==
  /\ root_pc = "done"
  /\ Len(root_result) >= 2
  /\ generated = <<0>>
  /\ root_result[1].text # RawOf(root_points[1])

\* C28 (client caching of src/rag_core.py): get_client returns a client
\* only if that client passed its connectivity check, and a call whose
\* check raised leaves no client in the global, so that the next call
\* constructs and checks a client again
C28_ClientCaching ==
  /\ root_got # "unchecked"
  /\ root_client # "unchecked"

\* ------------------------------------------------------------------------
\* Properties of the worker threads
\* ------------------------------------------------------------------------
\* the worker holds the handles that get_model and get_client returned
HoldsHandles(t) == worker[t].pc = "query"

\* C17 (singleton handles): however the requests of the worker threads
\* interleave, the embedding model and the vector-store client are each
\* constructed at most once, and every call of get_model and get_client
\* returns that one handle
C17_SingletonHandles ==
  /\ built.model <= 1
  /\ built.client <= 1
  /\ \A t, u \in Threads :
       (HoldsHandles(t) /\ HoldsHandles(u)) =>
         /\ worker[t].model = worker[u].model
         /\ worker[t].client = worker[u].client

====
